---------------------------- MODULE Spec2Model ----------------------------
(***************************************************************************)
(* Keyword-variant generation and ranking pipeline of                      *)
(* scripts/knowledge/keyword_variants.py (KeywordVariantGenerator) and the *)
(* /keywords/generate endpoint of scripts/knowledge/api_server.py.         *)
(*                                                                         *)
(* Conventions                                                             *)
(*  - A Python str is a sequence of one-character strings, so that         *)
(*    lower(), split(), strip() and the substring test `q in s` are        *)
(*    computed as Python computes them.                                    *)
(*  - A Python float is an exact rational <<n, d>> with d > 0 in lowest    *)
(*    terms; int(x) truncates.  Rounding of binary floats is not modelled. *)
(*  - list.sort(key, reverse=True) is a stable sort.                       *)
(***************************************************************************)
EXTENDS Integers, Sequences, FiniteSets, TLC

VARIABLES
    pc,                 \* position of the running operation
    semrush_keywords,   \* self.semrush_keywords: the reference corpus (list of rows)
    similar_keywords,   \* neighbor list returned by _find_similar_keywords
    metrics,            \* dict returned by _estimate_metrics
    keywords,           \* the candidate batch (list of KeywordVariant)
    additional_keywords,\* backfill picked by _rank_and_prioritize
    final_ranked,       \* list returned by _rank_and_prioritize
    generated_keywords, \* strings returned by _generate_keyword_variants
    retrieved_keywords, \* strings extracted from the retrieved similar content
    failed,             \* external calls that failed during the invocation
    variants,           \* local `variants` of the endpoint: [bound, value]
    response,           \* what the endpoint returns to the client
    combined_similarities, \* 0.4 * char cosine + 0.6 * word cosine, one per corpus row
    neighbors_wanted,   \* the argument top_n of _find_similar_keywords
    specific_keyword,   \* the argument specific_keyword of generate_keyword_variants
    request,            \* the HTTP request an endpoint handles
    invocations,        \* the invocations running concurrently on one generator
    workers,            \* WorkerPool.workers: queue, unfinished tasks and cache of each
    next_worker,        \* WorkerPool._next_worker
    completion          \* position of the caller of WorkerPool.wait_completion

vars == <<pc, semrush_keywords, similar_keywords, metrics, keywords,
          additional_keywords, final_ranked, generated_keywords,
          retrieved_keywords, failed, variants, response,
          combined_similarities, neighbors_wanted, specific_keyword, request,
          invocations, workers, next_worker, completion>>

\* what the keyword service holds besides one invocation's data
service_vars == <<specific_keyword, request, invocations>>

\* the fields of the WorkerPool and its caller
pool_vars == <<workers, next_worker, completion>>

\* nothing requested, no invocation running, no pool built
Idle ==
    /\ specific_keyword = <<>>
    /\ request = [endpoint |-> "none"]
    /\ invocations = <<>>
    /\ workers = <<>>
    /\ next_worker = 0
    /\ completion = "idle"

---------------------------------------------------------------------------
(* Bounds of the model                                                     *)

MaxReference == 2

MaxScored == 2

MaxEnriched == 1

MaxGenerated == 2

MaxRetrieved == 2

---------------------------------------------------------------------------
(* Exact rationals standing for Python floats                              *)

RECURSIVE GCD(_, _)
GCD(a, b) == IF b = 0 THEN a ELSE GCD(b, a % b)

Abs(n) == IF n < 0 THEN -n ELSE n

Rat(n, d) ==
    LET g == GCD(Abs(n), Abs(d))
        s == IF d < 0 THEN -1 ELSE 1
    IN  IF n = 0 THEN <<0, 1>> ELSE <<(s * n) \div g, (s * d) \div g>>

RInt(n) == <<n, 1>>

\* the operations cancel common factors before they multiply
RAdd(x, y) ==
    LET g == GCD(x[2], y[2])
    IN  Rat(x[1] * (y[2] \div g) + y[1] * (x[2] \div g), (x[2] \div g) * y[2])

RSub(x, y) == RAdd(x, <<-y[1], y[2]>>)

RMul(x, y) ==
    LET g1 == GCD(Abs(x[1]), y[2])
        g2 == GCD(Abs(y[1]), x[2])
    IN  Rat((x[1] \div g1) * (y[1] \div g2), (x[2] \div g2) * (y[2] \div g1))

RDiv(x, y) == RMul(x, IF y[1] < 0 THEN <<-y[2], -y[1]>> ELSE <<y[2], y[1]>>)

RLt(x, y) ==
    LET g == GCD(x[2], y[2])
    IN  x[1] * (y[2] \div g) < y[1] * (x[2] \div g)

RLe(x, y) == ~RLt(y, x)

RMin(x, y) == IF RLt(y, x) THEN y ELSE x

RMax(x, y) == IF RLt(x, y) THEN y ELSE x

\* Python int(x): truncation toward zero
Trunc(x) == IF x[1] >= 0 THEN x[1] \div x[2] ELSE -((-x[1]) \div x[2])

---------------------------------------------------------------------------
(* Python str operations                                                   *)

\* str.lower() on the characters the model uses
LowerChar(c) ==
    CASE c = "H" -> "h"
      [] c = "N" -> "n"
      [] c = "R" -> "r"
      [] c = "S" -> "s"
      [] c = "W" -> "w"
      [] OTHER   -> c

Lower(s) == [i \in 1..Len(s) |-> LowerChar(s[i])]

IsSpace(c) == c = " "

\* q in s  (substring test)
Contains(q, s) ==
    \E i \in 0..(Len(s) - Len(q)) : \A j \in 1..Len(q) : s[i + j] = q[j]

\* len(s.split()): the number of maximal runs of non-whitespace characters
WordCount(s) ==
    Cardinality({i \in 1..Len(s) :
        ~IsSpace(s[i]) /\ (i = 1 \/ IsSpace(s[i - 1]))})

\* s.strip()
Strip(s) ==
    LET nonblank == {i \in 1..Len(s) : ~IsSpace(s[i])}
    IN  IF nonblank = {} THEN <<>>
        ELSE LET lo == CHOOSE i \in nonblank : \A j \in nonblank : i <= j
                 hi == CHOOSE i \in nonblank : \A j \in nonblank : j <= i
             IN  SubSeq(s, lo, hi)

Min(a, b) == IF a < b THEN a ELSE b

Range(s) == {s[i] : i \in 1..Len(s)}

\* " ".join(words)
RECURSIVE Join(_)
Join(ws) ==
    IF Len(ws) = 0 THEN <<>>
    ELSE IF Len(ws) = 1 THEN ws[1]
    ELSE ws[1] \o <<" ">> \o Join(Tail(ws))

---------------------------------------------------------------------------
(* Words and keyword strings used as inputs                                *)

W_how == <<"h", "o", "w">>

W_show == <<"s", "h", "o", "w">>

W_to == <<"t", "o">>

W_best == <<"b", "e", "s", "t">>

W_mens == <<"m", "e", "n", "s">>

W_trail == <<"t", "r", "a", "i", "l">>

W_run == <<"r", "u", "n">>

W_Run == <<"R", "u", "n">>

W_shoes == <<"s", "h", "o", "e", "s">>

W_Gear == <<"G", "e", "a", "r">>

W_nike == <<"n", "i", "k", "e">>

W_gear == <<"g", "e", "a", "r">>

\* the interrogatives of lines 965 and 1219
QuestionWords ==
    << W_how,
       <<"w", "h", "a", "t">>,
       <<"w", "h", "y">>,
       <<"w", "h", "e", "n">>,
       <<"w", "h", "e", "r", "e">>,
       <<"w", "h", "i", "c", "h">> >>

\* any(q in keyword.lower() for q in ["how", "what", "why", "when", "where", "which"])
IsQuestionBased(keyword) ==
    \E i \in 1..Len(QuestionWords) : Contains(QuestionWords[i], Lower(keyword))

\* "nike" in keyword.lower()
IsBrand(keyword) == Contains(W_nike, Lower(keyword))

---------------------------------------------------------------------------
(* KeywordVariant (lines 51-64)                                            *)

KeywordVariant(keyword, source, m, similar) ==
    [ keyword                |-> keyword,
      source                 |-> source,
      search_volume          |-> m.search_volume,
      cpc                    |-> m.cpc,
      keyword_difficulty     |-> m.keyword_difficulty,
      competition_percentage |-> m.competition_percentage,
      efficiency_index       |-> <<0, 1>>,
      confidence_score       |-> m.confidence_score,
      similar_keywords       |-> similar,
      explanation            |-> "" ]

---------------------------------------------------------------------------
(* Keyword strings the candidate batches are drawn from                    *)

Segments == <<"short_tail", "medium_tail", "long_tail", "question_based">>

SegmentIndex(seg) == CHOOSE i \in 1..Len(Segments) : Segments[i] = seg

Vocab == <<W_run, W_shoes, W_nike, W_gear>>

\* the r-th two-word stem over Vocab (r = 0, 1, ...)
Stem(r) == <<Vocab[((r \div Len(Vocab)) % Len(Vocab)) + 1], Vocab[(r % Len(Vocab)) + 1]>>

\* the r-th distinct keyword string that falls into segment seg
KeywordOf(seg, r) ==
    CASE seg = "short_tail"     -> Join(Stem(r))
      [] seg = "medium_tail"    -> Join(<<W_best>> \o Stem(r))
      [] seg = "long_tail"      -> Join(<<W_best, W_mens, W_trail>> \o Stem(r))
      [] seg = "question_based" -> Join(<<W_how, W_to>> \o Stem(r))

BatchKeywords ==
    {KeywordOf(Segments[i], r) : i \in 1..Len(Segments),
                                r \in 0..(Len(Vocab) * Len(Vocab) - 1)}

\* keyword strings handed to the enrichment
EnrichPool ==
    { Join(<<W_run, W_shoes>>),
      Join(<<W_Run, W_shoes>>),
      Join(<<W_run, W_gear>>),
      Join(<<W_how, W_to, W_run, W_nike, W_shoes>>),
      Join(<<W_show, W_gear>>),
      Join(<<W_best, W_nike, W_run>>),
      Join(<<W_how, W_to, W_best, W_run, W_shoes>>) }

\* keyword strings the generation service and the retrieved content hand back
PipelinePool ==
    { Join(<<W_run, W_shoes>>),
      Join(<<W_run, W_shoes>>) \o <<" ">>,
      Join(<<W_nike, W_gear>>) }

\* keyword strings of every shape the segmentation distinguishes: an interrogative
\* alone, inside a longer word, in a long keyword, and none at each length
SegmentPool ==
    { W_how,
      Join(<<W_show, W_gear>>),
      Join(<<W_how, W_to, W_run, W_nike, W_shoes>>),
      Join(<<W_run, W_shoes>>),
      Join(<<W_best, W_nike, W_run>>),
      Join(<<W_best, W_mens, W_nike, W_gear>>),
      Join(<<W_best, W_mens, W_trail, W_run, W_shoes>>) }

KeywordPool == BatchKeywords \cup EnrichPool \cup PipelinePool \cup SegmentPool

\* rows of the semrush_keywords table
Row_run_shoes ==
    [ keyword |-> Join(<<W_run, W_shoes>>), search_volume |-> 5000,
      cpc |-> <<6, 5>>, keyword_difficulty |-> <<40, 1>>, competition |-> <<1, 2>> ]

Row_nike_gear ==
    [ keyword |-> Join(<<W_nike, W_gear>>), search_volume |-> 1000,
      cpc |-> <<2, 1>>, keyword_difficulty |-> <<80, 1>>, competition |-> <<19, 20>> ]

Row_Run_gear ==
    [ keyword |-> Join(<<W_Run, W_gear>>), search_volume |-> 305,
      cpc |-> <<1, 2>>, keyword_difficulty |-> <<20, 1>>, competition |-> <<1, 5>> ]

ReferenceRows == {Row_run_shoes, Row_nike_gear, Row_Run_gear}

\* a column the table holds NULL in: the row's dict maps it to None
Null == <<0, 0>>

\* a row whose cpc is NULL
Row_null_cpc ==
    [ keyword |-> Join(<<W_run, W_gear>>), search_volume |-> 800,
      cpc |-> Null, keyword_difficulty |-> <<30, 1>>, competition |-> <<3, 10>> ]

\* the lists of length lo..hi over the set S
ListsOver(S, lo, hi) == UNION {[1..n -> S] : n \in lo..hi}

\* the corpora a constructed generator can hold: lists of distinct rows, at least
\* one row because fit_transform needs one
Corpora ==
    {c \in ListsOver(ReferenceRows, 1, MaxReference) : Cardinality(Range(c)) = Len(c)}
        \cup {<<Row_null_cpc>>, <<Row_run_shoes, Row_null_cpc>>}

\* values of the combined similarity: at the floor and above it
SimilarityLevels == {<<3, 10>>, <<1, 2>>}


---------------------------------------------------------------------------
(* Similarity Index: _find_similar_keywords (lines 832-907)                *)

similarity_floor == <<3, 10>>

default_top_n == 5

\* self.keyword_data_map (lines 342-344): a later row replaces an earlier row
\* with the same keyword; looked up here as "the last row with that keyword"
KeywordDataMapHas(corpus, key) == \E i \in 1..Len(corpus) : corpus[i].keyword = key

KeywordDataMapGet(corpus, key) ==
    LET hits == {i \in 1..Len(corpus) : corpus[i].keyword = key}
    IN  corpus[CHOOSE i \in hits : \A j \in hits : j <= i]

\* the "metrics" dict built from a corpus row (lines 843-850, 889-896)
NeighborMetrics(row) ==
    [ search_volume      |-> row.search_volume,
      cpc                |-> row.cpc,
      keyword_difficulty |-> row.keyword_difficulty,
      competition        |-> row.competition ]

\* combined_similarities.argsort(): every order of the indices by ascending
\* similarity; the default sort kind does not fix the order of equal values
ArgSorts(sims) ==
    LET n == Len(sims)
    IN  {p \in [1..n -> 1..n] :
            /\ \A i, j \in 1..n : i # j => p[i] # p[j]
            /\ \A k \in 1..(n - 1) : RLe(sims[p[k]], sims[p[k + 1]])}

\* the order argsort returns for a short array, which it sorts by insertion:
\* indices by ascending similarity, equal similarities in index order
ArgSort(sims) ==
    LET n == Len(sims)
        Before(i, j) == RLt(sims[i], sims[j]) \/ (sims[i] = sims[j] /\ i < j)
    IN  [k \in 1..n |->
            CHOOSE i \in 1..n : Cardinality({j \in 1..n : Before(j, i)}) = k - 1]

\* variant of Reverse: the slice left in ascending order
Unreversed(s) == s

Reverse(s) == [i \in 1..Len(s) |-> s[Len(s) + 1 - i]]

\* _find_similar_keywords(keyword, top_n); sims[i] is the combined similarity
\* 0.4 * char cosine + 0.6 * word cosine of the keyword to corpus row i and order
\* is what argsort returned for sims
FindSimilarKeywordsBy(keyword, corpus, sims, top_n, order) ==
    IF KeywordDataMapHas(corpus, Lower(keyword))
    THEN << [ keyword    |-> Lower(keyword),
              similarity |-> <<1, 1>>,
              metrics    |-> NeighborMetrics(KeywordDataMapGet(corpus, Lower(keyword))) ] >>
    ELSE LET n           == Len(order)
             top_indices == Reverse(SubSeq(order, IF n > top_n THEN n - top_n + 1 ELSE 1, n))
             above       == SelectSeq(top_indices, LAMBDA idx : RLt(similarity_floor, sims[idx]))
         IN  [k \in 1..Len(above) |->
                [ keyword    |-> corpus[above[k]].keyword,
                  similarity |-> sims[above[k]],
                  metrics    |-> NeighborMetrics(corpus[above[k]]) ]]

\* _find_similar_keywords on a short corpus; the enrichment averages over the
\* neighbors, which does not depend on their order
FindSimilarKeywords(keyword, corpus, sims, top_n) ==
    FindSimilarKeywordsBy(keyword, corpus, sims, top_n, ArgSort(sims))

---------------------------------------------------------------------------
(* Metric Estimator: _estimate_metrics (lines 909-1003)                    *)

\* sum of a list of numbers
RECURSIVE RSum(_)
RSum(xs) == IF Len(xs) = 0 THEN <<0, 1>> ELSE RAdd(xs[1], RSum(Tail(xs)))

\* variant of NoNeighborMetrics: no evidence reported as confidence 0
NoNeighborMetricsZeroConfidence ==
    [ search_volume          |-> 100,
      cpc                    |-> <<1, 1>>,
      keyword_difficulty     |-> <<50, 1>>,
      competition_percentage |-> <<1, 2>>,
      confidence_score       |-> <<0, 1>> ]

\* the dict returned for an empty neighbor list (lines 912-920)
NoNeighborMetrics ==
    [ search_volume          |-> 100,
      cpc                    |-> <<1, 1>>,
      keyword_difficulty     |-> <<50, 1>>,
      competition_percentage |-> <<1, 2>>,
      confidence_score       |-> <<1, 5>> ]

\* the dict returned by the except branch (lines 995-1003)
ErrorMetrics ==
    [ search_volume          |-> 0,
      cpc                    |-> <<0, 1>>,
      keyword_difficulty     |-> <<0, 1>>,
      competition_percentage |-> <<0, 1>>,
      confidence_score       |-> <<0, 1>> ]

\* float(metrics.get("cpc", 0.0)) raises TypeError for a neighbor whose cpc is
\* None (line 933)
Raises(similar) == \E i \in 1..Len(similar) : similar[i].metrics.cpc = Null

\* variant of AverageMetrics: the metrics of the closest neighbor instead of
\* the averages
AverageMetricsOfFirst(similar) ==
    [ search_volume      |-> similar[1].metrics.search_volume,
      cpc                |-> similar[1].metrics.cpc,
      keyword_difficulty |-> similar[1].metrics.keyword_difficulty,
      competition        |-> similar[1].metrics.competition,
      confidence         |-> RMin(<<9, 10>>, RAdd(<<3, 10>>, RMul(<<1, 10>>, RInt(Len(similar))))) ]

\* the averages over the neighbors (lines 922-946); every neighbor built by
\* _find_similar_keywords carries a non-empty metrics dict
AverageMetrics(similar) ==
    LET n   == Len(similar)
        I   == 1..n
        Avg(xs) == RDiv(RSum(xs), RInt(n))
    IN  [ search_volume      |-> Trunc(Avg([i \in I |-> RInt(similar[i].metrics.search_volume)])),
          cpc                |-> Avg([i \in I |-> similar[i].metrics.cpc]),
          keyword_difficulty |-> Avg([i \in I |-> similar[i].metrics.keyword_difficulty]),
          competition        |-> Avg([i \in I |-> similar[i].metrics.competition]),
          confidence         |-> RMin(<<9, 10>>, RAdd(<<3, 10>>, RMul(<<1, 10>>, RInt(n)))) ]

\* long-tail adjustment (lines 956-960)
AdjustLongTail(keyword, m) ==
    IF WordCount(keyword) > 3
    THEN [m EXCEPT !.search_volume = Trunc(RMul(RInt(@), <<4, 5>>)),
                   !.competition   = RMul(@, <<7, 10>>)]
    ELSE m

\* question adjustment (lines 962-968)
AdjustQuestion(keyword, m) ==
    IF IsQuestionBased(keyword)
    THEN [m EXCEPT !.search_volume = Trunc(RMul(RInt(@), <<9, 10>>)),
                   !.cpc           = RMul(@, <<9, 10>>)]
    ELSE m

\* brand adjustment (lines 970-977)
AdjustBrand(keyword, m) ==
    IF IsBrand(keyword)
    THEN [m EXCEPT !.search_volume = Trunc(RMul(RInt(@), <<6, 5>>)),
                   !.competition   = RMul(@, <<11, 10>>)]
    ELSE m

\* variant of ClampMetrics: the result dict built without the range limits
ClampMetricsNone(m) ==
    [ search_volume          |-> m.search_volume,
      cpc                    |-> m.cpc,
      keyword_difficulty     |-> m.keyword_difficulty,
      competition_percentage |-> m.competition,
      confidence_score       |-> m.confidence ]

\* the clamped result dict (lines 979-993)
ClampMetrics(m) ==
    [ search_volume          |-> IF m.search_volume < 0 THEN 0 ELSE m.search_volume,
      cpc                    |-> RMax(<<0, 1>>, m.cpc),
      keyword_difficulty     |-> RMax(<<0, 1>>, RMin(<<100, 1>>, m.keyword_difficulty)),
      competition_percentage |-> RMax(<<0, 1>>, RMin(<<1, 1>>, m.competition)),
      confidence_score       |-> m.confidence ]

\* variant of EstimateMetrics: the keyword-shape adjustments also applied to the
\* defaults of an empty neighbor list
EstimateMetricsAdjustDefaults(keyword, similar) ==
    LET base == IF Len(similar) = 0
                THEN [ search_volume      |-> NoNeighborMetrics.search_volume,
                       cpc                |-> NoNeighborMetrics.cpc,
                       keyword_difficulty |-> NoNeighborMetrics.keyword_difficulty,
                       competition        |-> NoNeighborMetrics.competition_percentage,
                       confidence         |-> NoNeighborMetrics.confidence_score ]
                ELSE AverageMetrics(similar)
    IN  IF Len(similar) > 0 /\ Raises(similar) THEN ErrorMetrics
        ELSE ClampMetrics(
                AdjustBrand(keyword,
                    AdjustQuestion(keyword, AdjustLongTail(keyword, base))))

\* variant of EstimateMetrics: every adjustment computed from the averages, not
\* from the result of the adjustment before it
EstimateMetricsIndependentRules(keyword, similar) ==
    IF Len(similar) = 0 THEN NoNeighborMetrics
    ELSE IF Raises(similar) THEN ErrorMetrics
    ELSE LET base == AverageMetrics(similar)
             a    == AdjustLongTail(keyword, base)
             b    == AdjustQuestion(keyword, base)
             c    == AdjustBrand(keyword, base)
         IN  ClampMetrics(
                [ base EXCEPT
                    !.search_volume = IF c.search_volume # @ THEN c.search_volume
                                      ELSE IF b.search_volume # @ THEN b.search_volume
                                      ELSE a.search_volume,
                    !.cpc           = b.cpc,
                    !.competition   = IF c.competition # @ THEN c.competition
                                      ELSE a.competition ])

\* _estimate_metrics(keyword, similar_keywords)
EstimateMetrics(keyword, similar) ==
    IF Len(similar) = 0 THEN NoNeighborMetrics
    ELSE IF Raises(similar) THEN ErrorMetrics
    ELSE ClampMetrics(
            AdjustBrand(keyword,
                AdjustQuestion(keyword,
                    AdjustLongTail(keyword, AverageMetrics(similar)))))

\* one iteration of the loop of _enrich_keywords (lines 1014-1034)
EnrichKeyword(keyword, source, corpus, sims) ==
    LET similar == FindSimilarKeywords(keyword, corpus, sims, default_top_n)
    IN  KeywordVariant(keyword, source, EstimateMetrics(keyword, similar), similar)

---------------------------------------------------------------------------
(* Composite Scorer: _calculate_composite_metrics (lines 1038-1096)        *)

volume_weight == <<2, 5>>

difficulty_weight == <<1, 4>>

competition_weight == <<1, 4>>

cpc_weight == <<1, 10>>

\* max of a non-empty list of numbers
RECURSIVE RMaxOf(_)
RMaxOf(xs) == IF Len(xs) = 1 THEN xs[1] ELSE RMax(xs[1], RMaxOf(Tail(xs)))

\* max(kw.search_volume for kw in keywords) or 1
MaxVolume(kws) ==
    LET m == RMaxOf([i \in 1..Len(kws) |-> RInt(kws[i].search_volume)])[1]
    IN  IF m = 0 THEN 1 ELSE m

\* max(kw.cpc for kw in keywords) or 1
MaxCpc(kws) ==
    LET m == RMaxOf([i \in 1..Len(kws) |-> kws[i].cpc])
    IN  IF m[1] = 0 THEN <<1, 1>> ELSE m

\* variant of EfficiencyIndex: the raw search volume weighted without the
\* normalisation by the batch maximum, and the result not clamped
EfficiencyIndexRawVolume(kw, max_volume, max_cpc) ==
    LET cpc_score           == RMin(<<1, 1>>, RDiv(kw.cpc, max_cpc))
        difficulty_inverse  == RSub(<<1, 1>>, RDiv(kw.keyword_difficulty, <<100, 1>>))
        competition_inverse == RSub(<<1, 1>>, kw.competition_percentage)
        weighted == RAdd(RAdd(RMul(RInt(kw.search_volume), volume_weight),
                              RMul(difficulty_inverse, difficulty_weight)),
                         RAdd(RMul(competition_inverse, competition_weight),
                              RMul(cpc_score, cpc_weight)))
        confidence_factor == RAdd(<<1, 2>>, RMul(<<1, 2>>, kw.confidence_score))
    IN  RMul(weighted, confidence_factor)

\* variant of EfficiencyIndex: the weighted score multiplied by the confidence
\* itself instead of the factor 0.5 + 0.5 * confidence
EfficiencyIndexConfidenceDirect(kw, max_volume, max_cpc) ==
    LET volume_score        == RMin(<<1, 1>>, RDiv(RInt(kw.search_volume), RInt(max_volume)))
        cpc_score           == RMin(<<1, 1>>, RDiv(kw.cpc, max_cpc))
        difficulty_inverse  == RSub(<<1, 1>>, RDiv(kw.keyword_difficulty, <<100, 1>>))
        competition_inverse == RSub(<<1, 1>>, kw.competition_percentage)
        weighted == RAdd(RAdd(RMul(volume_score, volume_weight),
                              RMul(difficulty_inverse, difficulty_weight)),
                         RAdd(RMul(competition_inverse, competition_weight),
                              RMul(cpc_score, cpc_weight)))
    IN  RMax(<<0, 1>>, RMin(<<1, 1>>, RMul(weighted, kw.confidence_score)))

\* the efficiency_index of one keyword of the batch (lines 1052-1089)
EfficiencyIndex(kw, max_volume, max_cpc) ==
    LET volume_score        == RMin(<<1, 1>>, RDiv(RInt(kw.search_volume), RInt(max_volume)))
        cpc_score           == RMin(<<1, 1>>, RDiv(kw.cpc, max_cpc))
        difficulty_inverse  == RSub(<<1, 1>>, RDiv(kw.keyword_difficulty, <<100, 1>>))
        competition_inverse == RSub(<<1, 1>>, kw.competition_percentage)
        weighted == RAdd(RAdd(RMul(volume_score, volume_weight),
                              RMul(difficulty_inverse, difficulty_weight)),
                         RAdd(RMul(competition_inverse, competition_weight),
                              RMul(cpc_score, cpc_weight)))
        confidence_factor == RAdd(<<1, 2>>, RMul(<<1, 2>>, kw.confidence_score))
    IN  RMax(<<0, 1>>, RMin(<<1, 1>>, RMul(weighted, confidence_factor)))

\* variant of CalculateCompositeMetrics: the maxima taken over the keywords seen
\* so far in the loop instead of over the whole batch
CalculateCompositeMetricsRunningMax(kws) ==
    IF Len(kws) = 0 THEN <<>>
    ELSE [i \in 1..Len(kws) |->
            [kws[i] EXCEPT !.efficiency_index =
                EfficiencyIndex(kws[i], MaxVolume(SubSeq(kws, 1, i)),
                                MaxCpc(SubSeq(kws, 1, i)))]]

\* _calculate_composite_metrics(keywords)
CalculateCompositeMetrics(kws) ==
    IF Len(kws) = 0 THEN <<>>
    ELSE LET max_volume == MaxVolume(kws)
             max_cpc    == MaxCpc(kws)
         IN  [i \in 1..Len(kws) |->
                [kws[i] EXCEPT !.efficiency_index =
                    EfficiencyIndex(kws[i], max_volume, max_cpc)]]

---------------------------------------------------------------------------
(* Diversified Selector: _rank_and_prioritize (lines 1193-1301)            *)

max_short == 3

max_medium == 5

max_long == 2

max_questions == 2

total_needed == 12

\* list.sort(key=lambda k: k.efficiency_index, reverse=True): stable, descending
RECURSIVE SortByEfficiency(_)
SortByEfficiency(s) ==
    IF Len(s) <= 1 THEN s
    ELSE LET n    == Len(s)
             head == SortByEfficiency(SubSeq(s, 1, n - 1))
             x    == s[n]
             k    == Cardinality({i \in 1..(n - 1) :
                         RLe(x.efficiency_index, head[i].efficiency_index)})
         IN  SubSeq(head, 1, k) \o <<x>> \o SubSeq(head, k + 1, n - 1)

\* variant of Segment: the word count decides first, the interrogatives only for
\* keywords of five words and more
SegmentLengthFirst(keyword) ==
    IF WordCount(keyword) <= 2 THEN "short_tail"
    ELSE IF WordCount(keyword) <= 4 THEN "medium_tail"
    ELSE IF IsQuestionBased(keyword) THEN "question_based"
    ELSE "long_tail"

\* the segment a keyword is appended to (lines 1213-1228)
Segment(keyword) ==
    IF IsQuestionBased(keyword) THEN "question_based"
    ELSE IF WordCount(keyword) <= 2 THEN "short_tail"
    ELSE IF WordCount(keyword) <= 4 THEN "medium_tail"
    ELSE "long_tail"

\* Segment, tabulated once over the keyword strings of the model
SegmentTable == [k \in KeywordPool |-> Segment(k)]

\* one segment list: the members of seg in ranked order, sorted again
\* (lines 1205, 1213-1232)
SegmentList(ranked_keywords, seg) ==
    SortByEfficiency(
        SelectSeq(ranked_keywords, LAMBDA kw : SegmentTable[kw.keyword] = seg))

\* <<short_tail, medium_tail, long_tail, question_based>> after line 1232
SegmentLists(kws) ==
    LET ranked_keywords == SortByEfficiency(kws)
    IN  << SegmentList(ranked_keywords, "short_tail"),
           SegmentList(ranked_keywords, "medium_tail"),
           SegmentList(ranked_keywords, "long_tail"),
           SegmentList(ranked_keywords, "question_based") >>

\* variant of Quotas: the short-tail and medium-tail quotas exchanged
QuotasExchanged == <<max_medium, max_short, max_long, max_questions>>

\* max_short, max_medium, max_long, max_questions in the order of SegmentLists
Quotas == <<max_short, max_medium, max_long, max_questions>>

Take(s, n) == SubSeq(s, 1, IF n < Len(s) THEN n ELSE Len(s))

Drop(s, n) == SubSeq(s, n + 1, Len(s))

\* top_short + top_medium + top_long + top_questions (lines 1244-1247)
TopPicks(segs) ==
    Take(segs[1], Quotas[1]) \o Take(segs[2], Quotas[2])
        \o Take(segs[3], Quotas[3]) \o Take(segs[4], Quotas[4])

\* variant of Remaining: the leftovers concatenated but not sorted
RemainingUnsorted(segs) ==
    Drop(segs[1], Quotas[1]) \o Drop(segs[2], Quotas[2])
        \o Drop(segs[3], Quotas[3]) \o Drop(segs[4], Quotas[4])

\* remaining: what each segment holds beyond its quota, sorted (lines 1257-1269)
Remaining(segs) ==
    SortByEfficiency(
        Drop(segs[1], Quotas[1]) \o Drop(segs[2], Quotas[2])
            \o Drop(segs[3], Quotas[3]) \o Drop(segs[4], Quotas[4]))

\* variant of AdditionalKeywords: no backfill
AdditionalKeywordsNone(segs) == <<>>

\* additional_keywords (lines 1255, 1272-1273); empty when the quotas fill the total
AdditionalKeywords(segs) ==
    LET current_count == Len(TopPicks(segs))
    IN  IF current_count < total_needed
        THEN Take(Remaining(segs), total_needed - current_count)
        ELSE <<>>

\* variant of FinalRanked: the combined list is cut without the final sort
FinalRankedUnsorted(top_picks, additional) ==
    Take(top_picks \o additional, total_needed)

\* diverse_top sorted and cut to total_needed (lines 1276-1291)
FinalRanked(top_picks, additional) ==
    Take(SortByEfficiency(top_picks \o additional), total_needed)

\* _rank_and_prioritize: [final_ranked, additional_keywords]
RankAndPrioritize(kws) ==
    IF Len(kws) = 0
    THEN [final_ranked |-> <<>>, additional_keywords |-> <<>>]
    ELSE LET segs       == SegmentLists(kws)
             additional == AdditionalKeywords(segs)
         IN  [ final_ranked        |-> FinalRanked(TopPicks(segs), additional),
               additional_keywords |-> additional ]

---------------------------------------------------------------------------
(* Scored candidate batches handed to the selector                         *)

EfficiencyLevels == {<<1, 5>>, <<3, 5>>}

MaxExtra == 5

\* a local name that has not been assigned
NoValue == [bound |-> FALSE, value |-> <<>>]

\* a scored candidate of segment seg: the next unused keyword string of that segment
Candidate(batch, seg, eff) ==
    LET same == SelectSeq(batch, LAMBDA kw : SegmentTable[kw.keyword] = seg)
    IN  [KeywordVariant(KeywordOf(seg, Len(same)), "generated", NoNeighborMetrics, <<>>)
            EXCEPT !.efficiency_index = eff]

\* the batch made of runs <<segment, efficiency_index, count>>
RECURSIVE BatchOf(_)
BatchOf(runs) ==
    IF Len(runs) = 0 THEN <<>>
    ELSE LET n    == Len(runs)
             r    == runs[n]
             rest == IF r[3] = 1 THEN SubSeq(runs, 1, n - 1)
                     ELSE [runs EXCEPT ![n] = <<r[1], r[2], r[3] - 1>>]
             b    == BatchOf(rest)
         IN  IF r[3] = 0 THEN BatchOf(SubSeq(runs, 1, n - 1))
             ELSE Append(b, Candidate(b, r[1], r[2]))

Lo == <<1, 5>>

Hi == <<3, 5>>

\* the batches the enumeration starts from
SeedBatches ==
    { <<>>,
      \* every segment exactly at its quota
      BatchOf(<< <<"short_tail", Lo, 3>>, <<"medium_tail", Hi, 5>>,
                 <<"long_tail", Lo, 2>>, <<"question_based", Hi, 2>> >>),
      \* every segment below its quota
      BatchOf(<< <<"short_tail", Hi, 2>>, <<"medium_tail", Lo, 4>>,
                 <<"long_tail", Hi, 1>>, <<"question_based", Lo, 1>> >>),
      \* nineteen candidates, none of them a question
      BatchOf(<< <<"short_tail", Lo, 4>>, <<"short_tail", Hi, 3>>,
                 <<"medium_tail", Lo, 4>>, <<"medium_tail", Hi, 4>>,
                 <<"long_tail", Hi, 2>>, <<"long_tail", Lo, 2>> >>),
      \* one crowded segment
      BatchOf(<< <<"medium_tail", Hi, 5>>, <<"medium_tail", Lo, 5>> >>) }

InitSelect ==
    /\ pc = "collect"
    /\ keywords \in SeedBatches
    /\ additional_keywords = <<>>
    /\ final_ranked = <<>>
    /\ semrush_keywords = <<>>
    /\ similar_keywords = <<>>
    /\ metrics = NoNeighborMetrics
    /\ generated_keywords = <<>>
    /\ retrieved_keywords = <<>>
    /\ failed = {}
    /\ variants = NoValue
    /\ response = <<>>
    /\ combined_similarities = <<>>
    /\ neighbors_wanted = default_top_n
    /\ Idle

\* one more scored candidate arrives in the batch; the additions are enumerated
\* by segment and, within a segment, by ascending efficiency_index
AddCandidate ==
    /\ pc = "collect"
    /\ \E seed \in SeedBatches :
         /\ Len(seed) <= Len(keywords)
         /\ SubSeq(keywords, 1, Len(seed)) = seed
         /\ Len(keywords) < Len(seed) + MaxExtra
    /\ \E seg \in {Segments[i] : i \in 1..Len(Segments)}, eff \in EfficiencyLevels :
         LET n == Len(keywords)
         IN  /\ n > 0 /\ keywords \notin SeedBatches =>
                  LET last == keywords[n]
                      lseg == SegmentTable[last.keyword]
                  IN  \/ SegmentIndex(lseg) < SegmentIndex(seg)
                      \/ lseg = seg /\ RLe(last.efficiency_index, eff)
             /\ keywords' = Append(keywords, Candidate(keywords, seg, eff))
    /\ UNCHANGED <<service_vars, pool_vars, combined_similarities, neighbors_wanted, pc, semrush_keywords, similar_keywords, metrics,
                   additional_keywords, final_ranked, generated_keywords,
                   retrieved_keywords, failed, variants, response>>

\* ranked_keywords = await self._rank_and_prioritize(all_keywords)
RankBatch ==
    /\ pc = "collect"
    /\ LET r == RankAndPrioritize(keywords)
       IN  /\ final_ranked' = r.final_ranked
           /\ additional_keywords' = r.additional_keywords
    /\ pc' = "ranked"
    /\ UNCHANGED <<service_vars, pool_vars, combined_similarities, neighbors_wanted, semrush_keywords, similar_keywords, metrics, keywords,
                   generated_keywords, retrieved_keywords, failed, variants,
                   response>>

NextSelect == AddCandidate \/ RankBatch

SpecSelect == InitSelect /\ [][NextSelect]_vars

---------------------------------------------------------------------------
(* Enrichment of a list of keyword strings against a corpus                *)

InitEnrich ==
    /\ pc = "ready"
    /\ semrush_keywords \in Corpora
    /\ keywords = <<>>
    /\ similar_keywords = <<>>
    /\ metrics = NoNeighborMetrics
    /\ additional_keywords = <<>>
    /\ final_ranked = <<>>
    /\ generated_keywords = <<>>
    /\ retrieved_keywords = <<>>
    /\ failed = {}
    /\ variants = NoValue
    /\ response = <<>>
    /\ combined_similarities = <<>>
    /\ neighbors_wanted = default_top_n
    /\ Idle

\* enriched_keywords = await self._enrich_keywords(keywords, source, image_url);
\* sims[k] are the combined similarities of keyword k to the corpus rows, and
\* similar_keywords and metrics keep the values of the last iteration
EnrichKeywords ==
    /\ pc = "ready"
    /\ \E kws \in ListsOver(EnrichPool, 1, MaxEnriched) :
         \E sims \in [Range(kws) -> [1..Len(semrush_keywords) -> SimilarityLevels]] :
            LET batch == [i \in 1..Len(kws) |->
                            EnrichKeyword(kws[i], "generated", semrush_keywords, sims[kws[i]])]
                last  == kws[Len(kws)]
            IN  /\ generated_keywords' = kws
                /\ keywords' = batch
                /\ similar_keywords' = batch[Len(kws)].similar_keywords
                /\ metrics' = EstimateMetrics(last, batch[Len(kws)].similar_keywords)
    /\ pc' = "enriched"
    /\ UNCHANGED <<service_vars, pool_vars, combined_similarities, neighbors_wanted, semrush_keywords, additional_keywords, final_ranked,
                   retrieved_keywords, failed, variants, response>>

NextEnrich == EnrichKeywords

SpecEnrich == InitEnrich /\ [][NextEnrich]_vars

---------------------------------------------------------------------------
(* Scoring of a batch with arbitrary valid metrics                         *)

\* valid metrics at the ends of their ranges
ValidMetrics ==
    { [ search_volume |-> v[1], cpc |-> v[2], keyword_difficulty |-> d,
        competition_percentage |-> c, confidence_score |-> f ] :
        v \in {<<0, <<0, 1>>>>, <<100, <<6, 5>>>>, <<5000, <<1, 2>>>>},
        d \in {<<0, 1>>, <<100, 1>>},
        c \in {<<0, 1>>, <<1, 1>>},
        f \in {<<0, 1>>, <<1, 1>>} }

ScoredInputs ==
    {KeywordVariant(Join(<<W_run, W_shoes>>), "generated", m, <<>>) : m \in ValidMetrics}

InitScore ==
    /\ pc = "enriched"
    /\ keywords \in ListsOver(ScoredInputs, 1, MaxScored)
    /\ semrush_keywords = <<>>
    /\ similar_keywords = <<>>
    /\ metrics = NoNeighborMetrics
    /\ additional_keywords = <<>>
    /\ final_ranked = <<>>
    /\ generated_keywords = <<>>
    /\ retrieved_keywords = <<>>
    /\ failed = {}
    /\ variants = NoValue
    /\ response = <<>>
    /\ combined_similarities = <<>>
    /\ neighbors_wanted = default_top_n
    /\ Idle

\* all_keywords = await self._calculate_composite_metrics(all_keywords)
ScoreBatch ==
    /\ pc = "enriched"
    /\ keywords' = CalculateCompositeMetrics(keywords)
    /\ pc' = "scored"
    /\ UNCHANGED <<service_vars, pool_vars, combined_similarities, neighbors_wanted, semrush_keywords, similar_keywords, metrics, additional_keywords,
                   final_ranked, generated_keywords, retrieved_keywords, failed,
                   variants, response>>

NextScore == ScoreBatch

SpecScore == InitScore /\ [][NextScore]_vars

---------------------------------------------------------------------------
(* generate_keyword_variants (lines 1392-1483) behind the                  *)
(* /keywords/generate endpoint (api_server.py lines 128-214)               *)

retrieved_limit == 20

endpoint_limit == 12

\* list(set(xs)): the distinct elements in an order the set decides
ListOfSet(S) == {f \in [1..Cardinality(S) -> S] : Range(f) = S}

\* list(set([str(kw).strip() for kw in keywords if kw]))  (lines 814, 819)
UniqueStripped(raw) == ListOfSet({Strip(k) : k \in {x \in Range(raw) : Len(x) > 0}})

\* list(set(retrieved_keywords))[:20]  (lines 1452-1454)
UniqueRetrieved(raw) == {Take(l, retrieved_limit) : l \in ListOfSet(Range(raw))}

\* the corpora the semrush_keywords table holds while the service runs
PipelineCorpora == {<<Row_run_shoes, Row_nike_gear>>, <<Row_Run_gear, Row_run_shoes>>}

\* the fallback of line 1189 and the text of a completed explanation
Explanation(ok) == IF ok THEN "llm explanation" ELSE "fallback explanation"

\* _generate_explanations (lines 1098-1125): the completion fails for the
\* keywords at the positions in failing
GenerateExplanations(kws, failing) ==
    [i \in 1..Len(kws) |-> [kws[i] EXCEPT !.explanation = Explanation(i \notin failing)]]

\* [kw for kw in variants if kw.source == "generated"][:12]  (lines 167-173)
GeneratedOnly(vs) == Take(SelectSeq(vs, LAMBDA kw : kw.source = "generated"), endpoint_limit)

\* the specific_keyword argument: None for /keywords/generate, one keyword of the
\* request for /keywords/batch-generate (api_server.py lines 398-400)
SpecificKeywords == {<<>>, Join(<<W_best, W_nike, W_run>>)}

Running == {"start", "initialize", "retrieve", "generate", "enrich", "score",
            "explain", "rank"}

Init ==
    /\ pc = "start"
    /\ semrush_keywords \in PipelineCorpora
    /\ keywords = <<>>
    /\ similar_keywords = <<>>
    /\ metrics = NoNeighborMetrics
    /\ additional_keywords = <<>>
    /\ final_ranked = <<>>
    /\ generated_keywords = <<>>
    /\ retrieved_keywords = <<>>
    /\ failed = {}
    /\ variants = NoValue
    /\ response = <<>>
    /\ combined_similarities = <<>>
    /\ neighbors_wanted = default_top_n
    /\ specific_keyword \in SpecificKeywords
    /\ request = [endpoint |-> "none"]
    /\ invocations = <<>>
    /\ workers = <<>>
    /\ next_worker = 0
    /\ completion = "idle"

\* lines 1400-1405 and 1411: keywords_to_process = [specific_keyword], which is
\* not empty; the list is not read again
UseSpecificKeyword ==
    /\ pc = "start"
    /\ specific_keyword # <<>>
    /\ pc' = "initialize"
    /\ UNCHANGED <<service_vars, pool_vars, combined_similarities, neighbors_wanted,
                   semrush_keywords, similar_keywords, metrics, keywords,
                   additional_keywords, final_ranked, generated_keywords,
                   retrieved_keywords, failed, variants, response>>

\* lines 1406-1413: the first call of _generate_keyword_variants; an exception or
\* unparseable JSON gives [] (lines 824-830), and no keyword ends the invocation
GenerateFirst ==
    /\ pc = "start"
    /\ specific_keyword = <<>>
    /\ \/ \E raw \in ListsOver(PipelinePool, 0, MaxGenerated) :
            \E ks \in UniqueStripped(raw) :
                /\ generated_keywords' = ks
                /\ pc' = IF Len(ks) = 0 THEN "returned" ELSE "initialize"
                /\ failed' = failed
       \/ /\ generated_keywords' = <<>>
          /\ pc' = "returned"
          /\ failed' = failed \cup {"generate"}
    /\ UNCHANGED <<service_vars, pool_vars, combined_similarities, neighbors_wanted, semrush_keywords, similar_keywords, metrics, keywords,
                   additional_keywords, final_ranked, retrieved_keywords,
                   variants, response>>

\* lines 1418-1424: self.ad_index and self.keyword_similarity are never assigned,
\* so both initialisations run in every invocation; either may raise, and the
\* handler of line 1481 then returns []
InitializeIndexes ==
    /\ pc = "initialize"
    /\ \/ /\ failed' = failed \cup {"ad_index"}
          /\ pc' = "returned"
          /\ UNCHANGED semrush_keywords
       \/ /\ failed' = failed \cup {"keyword_similarity"}
          /\ pc' = "returned"
          /\ UNCHANGED semrush_keywords
       \/ /\ semrush_keywords' \in PipelineCorpora
          /\ pc' = "retrieve"
          /\ failed' = failed
    /\ UNCHANGED <<service_vars, pool_vars, combined_similarities, neighbors_wanted, similar_keywords, metrics, keywords, additional_keywords,
                   final_ranked, generated_keywords, retrieved_keywords,
                   variants, response>>

\* line 1427 with lines 1443-1454: the keywords of the retrieved content; a
\* failing retrieval gives no content (lines 569-571)
RetrieveSimilarContent ==
    /\ pc = "retrieve"
    /\ \/ \E raw \in ListsOver(PipelinePool, 0, MaxRetrieved) :
            /\ retrieved_keywords' \in UniqueRetrieved(raw)
            /\ failed' = failed
       \/ /\ retrieved_keywords' = <<>>
          /\ failed' = failed \cup {"retrieve"}
    /\ pc' = "generate"
    /\ UNCHANGED <<service_vars, pool_vars, combined_similarities, neighbors_wanted, semrush_keywords, similar_keywords, metrics, keywords,
                   additional_keywords, final_ranked, generated_keywords,
                   variants, response>>

\* line 1431: the second call of _generate_keyword_variants
GenerateVariants ==
    /\ pc = "generate"
    /\ \/ \E raw \in ListsOver(PipelinePool, 0, MaxGenerated) :
            /\ generated_keywords' \in UniqueStripped(raw)
            /\ failed' = failed
       \/ /\ generated_keywords' = <<>>
          /\ failed' = failed \cup {"generate"}
    /\ pc' = "enrich"
    /\ UNCHANGED <<service_vars, pool_vars, combined_similarities, neighbors_wanted, semrush_keywords, similar_keywords, metrics, keywords,
                   additional_keywords, final_ranked, retrieved_keywords,
                   variants, response>>

\* lines 1437-1464: all_keywords = enriched_keywords + similar_keywords; level is
\* the combined similarity of the keywords to the corpus rows
EnrichAll ==
    /\ pc = "enrich"
    /\ \E level \in SimilarityLevels :
         LET sims == [i \in 1..Len(semrush_keywords) |-> level]
             enriched_keywords ==
                 [i \in 1..Len(generated_keywords) |->
                     EnrichKeyword(generated_keywords[i], "generated", semrush_keywords, sims)]
             similar ==
                 [i \in 1..Len(retrieved_keywords) |->
                     EnrichKeyword(retrieved_keywords[i], "retrieved", semrush_keywords, sims)]
         IN  keywords' = enriched_keywords \o similar
    /\ pc' = "score"
    /\ UNCHANGED <<service_vars, pool_vars, combined_similarities, neighbors_wanted, semrush_keywords, similar_keywords, metrics, additional_keywords,
                   final_ranked, generated_keywords, retrieved_keywords, failed,
                   variants, response>>

\* line 1465
CalculateComposite ==
    /\ pc = "score"
    /\ keywords' = CalculateCompositeMetrics(keywords)
    /\ pc' = "explain"
    /\ UNCHANGED <<service_vars, pool_vars, combined_similarities, neighbors_wanted, semrush_keywords, similar_keywords, metrics, additional_keywords,
                   final_ranked, generated_keywords, retrieved_keywords, failed,
                   variants, response>>

\* line 1471: the completion succeeds for every keyword, fails for one keyword,
\* or fails for all of them
Explain ==
    /\ pc = "explain"
    /\ \E failing \in {{}} \cup {{i} : i \in 1..Len(keywords)} \cup {1..Len(keywords)} :
         /\ keywords' = GenerateExplanations(keywords, failing)
         /\ failed' = IF failing = {} THEN failed ELSE failed \cup {"explain"}
    /\ pc' = "rank"
    /\ UNCHANGED <<service_vars, pool_vars, combined_similarities, neighbors_wanted, semrush_keywords, similar_keywords, metrics, additional_keywords,
                   final_ranked, generated_keywords, retrieved_keywords,
                   variants, response>>

\* lines 1475-1479
RankAndReturn ==
    /\ pc = "rank"
    /\ LET r == RankAndPrioritize(keywords)
       IN  /\ final_ranked' = r.final_ranked
           /\ additional_keywords' = r.additional_keywords
    /\ pc' = "returned"
    /\ UNCHANGED <<service_vars, pool_vars, combined_similarities, neighbors_wanted, semrush_keywords, similar_keywords, metrics, keywords,
                   generated_keywords, retrieved_keywords, failed, variants,
                   response>>

\* api_server.py lines 164-188: wait_for hands over the list the task returned
Respond ==
    /\ pc = "returned"
    /\ specific_keyword = <<>>
    /\ variants' = [bound |-> TRUE, value |-> final_ranked]
    /\ response' = GeneratedOnly(final_ranked)
    /\ pc' = "done"
    /\ UNCHANGED <<service_vars, pool_vars, combined_similarities, neighbors_wanted, semrush_keywords, similar_keywords, metrics, keywords,
                   additional_keywords, final_ranked, generated_keywords,
                   retrieved_keywords, failed>>

\* what the handler of asyncio.TimeoutError returns (api_server.py lines 190-210)
TimeoutResponse(v) ==
    IF v.bound /\ Len(v.value) > 0 THEN GeneratedOnly(v.value) ELSE <<>>

\* api_server.py lines 164, 190-210: wait_for raises TimeoutError while the task
\* is still running, before `variants` is assigned
Timeout ==
    /\ pc \in Running
    /\ specific_keyword = <<>>
    /\ response' = TimeoutResponse(variants)
    /\ pc' = "timed_out"
    /\ UNCHANGED <<service_vars, pool_vars, combined_similarities, neighbors_wanted, semrush_keywords, similar_keywords, metrics, keywords,
                   additional_keywords, final_ranked, generated_keywords,
                   retrieved_keywords, failed, variants>>

Next ==
    \/ UseSpecificKeyword
    \/ GenerateFirst
    \/ InitializeIndexes
    \/ RetrieveSimilarContent
    \/ GenerateVariants
    \/ EnrichAll
    \/ CalculateComposite
    \/ Explain
    \/ RankAndReturn
    \/ Respond
    \/ Timeout

Spec == Init /\ [][Next]_vars

---------------------------------------------------------------------------
(* Properties of the Diversified Selector (checked under SpecSelect)       *)

\* the quotas as the target distribution states them:
\* short-tail, medium-tail, long-tail, question-form
StatedQuotas == <<3, 5, 2, 2>>

\* the candidates of the batch that belong to segment seg
MembersOf(batch, seg) == {kw \in Range(batch) : SegmentTable[kw.keyword] = seg}

\* C1: the selector returns exactly min(12, number of candidates) items:
\* never more than 12, exactly 12 when at least 12 candidates exist, and all
\* of them when fewer exist.
C1_ExactlyMinTotal ==
    pc = "ranked" => Len(final_ranked) = Min(total_needed, Len(keywords))

\* C1 witness: more than 12 candidates, unevenly spread (a segment below its
\* quota, so the backfill acted), and 12 returned.
C1_Witness ==
    /\ pc = "ranked"
    /\ Len(keywords) > total_needed
    /\ Len(additional_keywords) > 0
    /\ Len(final_ranked) = total_needed

\* C8: for each segment P with quota q(P), the output holds at least
\* min(q(P), |P|) members of P and they are the members of P with the highest
\* efficiency_index (no member of P left out outranks a member of P returned);
\* when every segment holds at least its quota the output is exactly
\* 3 short-tail, 5 medium-tail, 2 long-tail and 2 question-form keywords.
C8_QuotaPerSegment ==
    pc = "ranked" =>
        /\ \A i \in 1..Len(Segments) :
             LET P   == MembersOf(keywords, Segments[i])
                 out == MembersOf(final_ranked, Segments[i])
             IN  /\ out \subseteq P
                 /\ Cardinality(out) >= Min(StatedQuotas[i], Cardinality(P))
                 /\ \A x \in P \ out, y \in out :
                        RLe(x.efficiency_index, y.efficiency_index)
        /\ (\A i \in 1..Len(Segments) :
                Cardinality(MembersOf(keywords, Segments[i])) >= StatedQuotas[i])
           => \A i \in 1..Len(Segments) :
                Cardinality(MembersOf(final_ranked, Segments[i])) = StatedQuotas[i]

\* C8 witness: every segment holds at least its quota, one of them more, and the
\* members of that segment differ in efficiency_index.
C8_Witness ==
    /\ pc = "ranked"
    /\ \A i \in 1..Len(Segments) :
          Cardinality(MembersOf(keywords, Segments[i])) >= StatedQuotas[i]
    /\ \E i \in 1..Len(Segments) :
          LET P == MembersOf(keywords, Segments[i])
          IN  /\ Cardinality(P) > StatedQuotas[i]
              /\ \E x, y \in P : RLt(x.efficiency_index, y.efficiency_index)

\* C9: when the per-segment picks total fewer than 12, the missing slots are
\* filled with the best candidates not yet picked, whatever their segment: no
\* candidate left out has a strictly higher efficiency_index than a backfilled
\* one, and the output has min(12, number of candidates) items.
C9_BackfillBest ==
    pc = "ranked" /\ Len(additional_keywords) > 0 =>
        /\ Len(final_ranked) = Min(total_needed, Len(keywords))
        /\ Range(additional_keywords) \subseteq Range(final_ranked)
        /\ \A b \in Range(additional_keywords) :
             \A u \in Range(keywords) \ Range(final_ranked) :
                 ~RLt(b.efficiency_index, u.efficiency_index)

\* C9 witness: twenty candidates, a single question-form keyword among them,
\* twelve results, some of them backfilled from two different segments.
C9_Witness ==
    /\ pc = "ranked"
    /\ Len(keywords) = 20
    /\ Cardinality(MembersOf(keywords, "question_based")) = 1
    /\ Len(final_ranked) = total_needed
    /\ Len(additional_keywords) > 0
    /\ Range(keywords) \ Range(final_ranked) # {}

\* C10: the returned list is sorted by efficiency_index in non-increasing order.
C10_SortedDescending ==
    pc = "ranked" =>
        \A i \in 1..(Len(final_ranked) - 1) :
            RLe(final_ranked[i + 1].efficiency_index, final_ranked[i].efficiency_index)

\* C10 witness: a returned list of twelve whose first item outranks its last
\* although a low-ranked candidate came first in the batch.
C10_Witness ==
    /\ pc = "ranked"
    /\ Len(final_ranked) = total_needed
    /\ RLt(final_ranked[total_needed].efficiency_index, final_ranked[1].efficiency_index)
    /\ RLt(keywords[1].efficiency_index, final_ranked[1].efficiency_index)

---------------------------------------------------------------------------
(* Properties of the Composite Scorer (checked under SpecScore)            *)

\* C5: for every batch of keywords with valid metrics, every efficiency_index
\* computed by the scorer lies in [0, 1].
C5_EfficiencyInUnitInterval ==
    pc = "scored" =>
        \A i \in 1..Len(keywords) :
            /\ RLe(<<0, 1>>, keywords[i].efficiency_index)
            /\ RLe(keywords[i].efficiency_index, <<1, 1>>)

\* C5 witness: a scored batch in which one keyword reaches 1, another 0, and
\* a third value lies strictly between.
C5_Witness ==
    /\ pc = "scored"
    /\ \E i, j \in 1..Len(keywords) :
          /\ keywords[i].efficiency_index = <<1, 1>>
          /\ RLt(<<0, 1>>, keywords[j].efficiency_index)
          /\ RLt(keywords[j].efficiency_index, <<1, 1>>)
          /\ keywords[j].search_volume < keywords[i].search_volume

---------------------------------------------------------------------------
(* Properties of the Metric Estimator (checked under SpecEnrich)           *)

\* C6: for every keyword and every empty neighbor list the estimator returns
\* exactly volume 100, cpc 1.0, difficulty 50, competition 0.5, confidence 0.2,
\* with no keyword-shape adjustment applied.
C6_DefaultsForNoNeighbors ==
    pc = "enriched" /\ similar_keywords = <<>> =>
        /\ metrics.search_volume = 100
        /\ metrics.cpc = <<1, 1>>
        /\ metrics.keyword_difficulty = <<50, 1>>
        /\ metrics.competition_percentage = <<1, 2>>
        /\ metrics.confidence_score = <<1, 5>>

\* C6 witness: the estimator ran on a keyword with more than three words, an
\* interrogative and the brand token, and an empty neighbor list.
C6_Witness ==
    /\ pc = "enriched"
    /\ similar_keywords = <<>>
    /\ LET k == generated_keywords[Len(generated_keywords)]
       IN  WordCount(k) > 3 /\ IsQuestionBased(k) /\ IsBrand(k)

\* C7 as stated: every enriched keyword whose neighbor list is empty has
\* confidence_score 0.
C7_ZeroConfidenceWithoutNeighbors ==
    pc = "enriched" =>
        \A i \in 1..Len(keywords) :
            keywords[i].similar_keywords = <<>> => keywords[i].confidence_score = <<0, 1>>

\* C7 as amended: every enriched keyword whose neighbor list is empty has
\* confidence_score 0.2, the estimator's default.
C7_DefaultConfidenceWithoutNeighbors ==
    pc = "enriched" =>
        \A i \in 1..Len(keywords) :
            keywords[i].similar_keywords = <<>> => keywords[i].confidence_score = <<1, 5>>

\* C7 witness: an enriched keyword without neighbors although the corpus has
\* rows, none of them above the similarity floor.
C7_Witness ==
    /\ pc = "enriched"
    /\ Len(semrush_keywords) > 0
    /\ \E i \in 1..Len(keywords) :
          /\ keywords[i].similar_keywords = <<>>
          /\ keywords[i].confidence_score = <<1, 5>>

---------------------------------------------------------------------------
(* Properties of the pipeline and the endpoint (checked under Spec)        *)

\* C2: within one invocation the selector never returns two items with the
\* same keyword string, for every batch the pipeline hands it (generated
\* candidates followed by retrieved candidates).
C2_NoDuplicateKeywords ==
    pc = "returned" =>
        \A i, j \in 1..Len(final_ranked) :
            i # j => final_ranked[i].keyword # final_ranked[j].keyword

\* C3: when the timeout fires while generate_keyword_variants is still running,
\* the endpoint returns the candidates computed by then: every generated
\* candidate the task had produced is in the response.
C3_PartialResultsOnTimeout ==
    pc = "timed_out" =>
        \A i \in 1..Len(keywords) :
            keywords[i].source = "generated" =>
                \E j \in 1..Len(response) : response[j].keyword = keywords[i].keyword

\* C4: when a single external call fails during generate_keyword_variants, the
\* batch is not lost: the keywords the generation service delivered are still
\* returned.
C4_SingleFailureKeepsBatch ==
    pc = "returned" /\ Cardinality(failed) = 1 =>
        \A i \in 1..Len(generated_keywords) :
            \E j \in 1..Len(final_ranked) :
                /\ final_ranked[j].keyword = generated_keywords[i]
                /\ final_ranked[j].source = "generated"

---------------------------------------------------------------------------
(* Segmentation of a scored batch by the selector                          *)

MaxSegmented == 2

\* scored candidates over SegmentPool
SegmentInputs ==
    { [KeywordVariant(k, "generated", NoNeighborMetrics, <<>>)
          EXCEPT !.efficiency_index = eff] : k \in SegmentPool, eff \in EfficiencyLevels }

InitSegment ==
    /\ pc = "collect"
    /\ keywords \in ListsOver(SegmentInputs, 1, MaxSegmented)
    /\ additional_keywords = <<>>
    /\ final_ranked = <<>>
    /\ semrush_keywords = <<>>
    /\ similar_keywords = <<>>
    /\ metrics = NoNeighborMetrics
    /\ generated_keywords = <<>>
    /\ retrieved_keywords = <<>>
    /\ failed = {}
    /\ variants = NoValue
    /\ response = <<>>
    /\ combined_similarities = <<>>
    /\ neighbors_wanted = default_top_n
    /\ Idle

NextSegment == RankBatch

SpecSegment == InitSegment /\ [][NextSegment]_vars

\* the interrogatives of the partition rule
StatedInterrogatives ==
    {<<"h", "o", "w">>, <<"w", "h", "a", "t">>, <<"w", "h", "y">>,
     <<"w", "h", "e", "n">>, <<"w", "h", "e", "r", "e">>, <<"w", "h", "i", "c", "h">>}

\* the partition rule as stated: first match in the order question-form,
\* short-tail, medium-tail, long-tail; the result is an index into Segments
StatedPartition(keyword) ==
    IF \E q \in StatedInterrogatives : Contains(q, Lower(keyword)) THEN 4
    ELSE IF WordCount(keyword) <= 2 THEN 1
    ELSE IF WordCount(keyword) <= 4 THEN 2
    ELSE 3

\* C11: the selector puts every candidate of the batch into exactly one of its
\* four segment lists, the one the first-match rule question-form, short-tail
\* (<= 2 words), medium-tail (3-4 words), long-tail (>= 5 words) names; a keyword
\* containing an interrogative is question-form whatever its word count.
C11_OnePartitionFirstMatch ==
    pc = "ranked" =>
        LET segs == SegmentLists(keywords)
        IN  /\ Len(segs[1]) + Len(segs[2]) + Len(segs[3]) + Len(segs[4]) = Len(keywords)
            /\ \A i \in 1..Len(keywords) :
                 \A p \in 1..4 :
                    (\E j \in 1..Len(segs[p]) : segs[p][j] = keywords[i])
                        <=> p = StatedPartition(keywords[i].keyword)

\* C11 witness: a ranked batch holding a one-word interrogative and a five-word
\* keyword with an interrogative, both in the question-form list.
C11_Witness ==
    /\ pc = "ranked"
    /\ \E i, j \in 1..Len(keywords) :
          /\ WordCount(keywords[i].keyword) = 1
          /\ WordCount(keywords[j].keyword) >= 5
          /\ IsQuestionBased(keywords[i].keyword)
          /\ IsQuestionBased(keywords[j].keyword)
          /\ Len(SegmentLists(keywords)[4]) = 2

---------------------------------------------------------------------------
(* Further properties of the Composite Scorer (checked under SpecScore)    *)

\* the batch maximum of search_volume, 0 replaced by 1
StatedMaxVolume(batch) ==
    LET m == CHOOSE v \in {batch[i].search_volume : i \in 1..Len(batch)} :
                \A i \in 1..Len(batch) : batch[i].search_volume <= v
    IN  IF m = 0 THEN 1 ELSE m

\* the batch maximum of cpc, 0 replaced by 1
StatedMaxCpc(batch) ==
    LET m == CHOOSE v \in {batch[i].cpc : i \in 1..Len(batch)} :
                \A i \in 1..Len(batch) : RLe(batch[i].cpc, v)
    IN  IF m = <<0, 1>> THEN <<1, 1>> ELSE m

\* clamp_[0,1]((0.4 * volume_score + 0.25 * (1 - difficulty / 100)
\*     + 0.25 * (1 - competition) + 0.1 * cpc_score) * (0.5 + 0.5 * confidence))
StatedEfficiency(kw, batch) ==
    LET volume_score == RDiv(RInt(kw.search_volume), RInt(StatedMaxVolume(batch)))
        cpc_score    == RDiv(kw.cpc, StatedMaxCpc(batch))
        sum == RAdd(RAdd(RMul(<<2, 5>>, volume_score),
                         RMul(<<1, 4>>, RSub(<<1, 1>>, RDiv(kw.keyword_difficulty, <<100, 1>>)))),
                    RAdd(RMul(<<1, 4>>, RSub(<<1, 1>>, kw.competition_percentage)),
                         RMul(<<1, 10>>, cpc_score)))
        product == RMul(sum, RAdd(<<1, 2>>, RMul(<<1, 2>>, kw.confidence_score)))
    IN  IF RLt(product, <<0, 1>>) THEN <<0, 1>>
        ELSE IF RLt(<<1, 1>>, product) THEN <<1, 1>>
        ELSE product

\* C12: for every non-empty batch the scorer sets each keyword's efficiency_index
\* to clamp_[0,1]((0.4 * volume_score + 0.25 * (1 - difficulty/100)
\* + 0.25 * (1 - competition) + 0.1 * cpc_score) * (0.5 + 0.5 * confidence)), with
\* volume_score and cpc_score relative to the batch maximum and a maximum of 0
\* replaced by 1.
C12_EfficiencyFormula ==
    pc = "scored" =>
        \A i \in 1..Len(keywords) :
            keywords[i].efficiency_index = StatedEfficiency(keywords[i], keywords)

\* C12 witness: a scored batch whose maxima of search_volume and cpc are both 0
\* and whose first keyword scores strictly between 0 and 1.
C12_Witness ==
    /\ pc = "scored"
    /\ \A i \in 1..Len(keywords) :
          keywords[i].search_volume = 0 /\ keywords[i].cpc = <<0, 1>>
    /\ RLt(<<0, 1>>, keywords[1].efficiency_index)
    /\ RLt(keywords[1].efficiency_index, <<1, 1>>)

\* C13 as stated: the efficiency_index of a keyword is the same whichever other
\* keyword it is scored with.
C13_IndependentOfBatch ==
    pc = "scored" =>
        \A i \in 1..Len(keywords) :
            \A other \in ScoredInputs :
                CalculateCompositeMetrics(<<keywords[i], other>>)[1].efficiency_index
                    = keywords[i].efficiency_index

\* C13 as amended: the efficiency_index of a keyword is the same whichever other
\* keyword it is scored with, provided the two batches have the same maximum
\* search_volume and the same maximum cpc.
C13_SameForEqualBatchMaxima ==
    pc = "scored" =>
        \A i \in 1..Len(keywords) :
            \A other \in ScoredInputs :
                LET batch == <<keywords[i], other>>
                IN  /\ StatedMaxVolume(batch) = StatedMaxVolume(keywords)
                    /\ StatedMaxCpc(batch) = StatedMaxCpc(keywords)
                    => CalculateCompositeMetrics(batch)[1].efficiency_index
                          = keywords[i].efficiency_index

\* C13 witness: a scored batch of two whose first keyword is below the maximum
\* search_volume, and a different companion for it that gives the same maxima.
C13_Witness ==
    /\ pc = "scored"
    /\ Len(keywords) = 2
    /\ keywords[1].search_volume < StatedMaxVolume(keywords)
    /\ \E other \in ScoredInputs :
          /\ other.confidence_score # keywords[2].confidence_score
          /\ StatedMaxVolume(<<keywords[1], other>>) = StatedMaxVolume(keywords)
          /\ StatedMaxCpc(<<keywords[1], other>>) = StatedMaxCpc(keywords)

---------------------------------------------------------------------------
(* Further properties of the Metric Estimator (checked under SpecEnrich)   *)

\* the keyword the estimator ran on last
LastKeyword == generated_keywords[Len(generated_keywords)]

\* the estimator averaged: there are neighbors and none made it raise
Averaged ==
    /\ pc = "enriched"
    /\ similar_keywords # <<>>
    /\ \A i \in 1..Len(similar_keywords) : similar_keywords[i].metrics.cpc # Null

\* the arithmetic mean of field f over the neighbors
StatedMean(f) ==
    RDiv(RSum([i \in 1..Len(similar_keywords) |->
                  IF f = "search_volume" THEN RInt(similar_keywords[i].metrics.search_volume)
                  ELSE similar_keywords[i].metrics[f]]),
         RInt(Len(similar_keywords)))

\* the integer part of a non-negative number
IntegerPart(x) == x[1] \div x[2]

StartsWith(q, s) == Len(q) <= Len(s) /\ SubSeq(s, 1, Len(q)) = q

StartsWithInterrogative(keyword) ==
    \E q \in StatedInterrogatives : StartsWith(q, Lower(keyword))

ContainsInterrogative(keyword) ==
    \E q \in StatedInterrogatives : Contains(q, Lower(keyword))

ContainsBrand(keyword) == Contains(<<"n", "i", "k", "e">>, Lower(keyword))

\* C14: for a non-empty list of n neighbors and a keyword no adjustment applies
\* to (at most 3 words, no interrogative, no brand token) the estimate is the
\* arithmetic mean of each metric over the neighbors (search_volume, an integer,
\* is the integer part of its mean) with confidence min(0.9, 0.3 + 0.1 * n); one
\* exact-match neighbor (5000, 1.2, 40, 0.5) gives 5000, 1.2, 40, 0.5 and 0.4.
C14_MeanOfNeighbors ==
    /\ Averaged /\ WordCount(LastKeyword) <= 3
          /\ ~ContainsInterrogative(LastKeyword) /\ ~ContainsBrand(LastKeyword) =>
          /\ metrics.search_volume = IntegerPart(StatedMean("search_volume"))
          /\ metrics.cpc = StatedMean("cpc")
          /\ metrics.keyword_difficulty = StatedMean("keyword_difficulty")
          /\ metrics.competition_percentage = StatedMean("competition")
          /\ metrics.confidence_score =
                LET c == RAdd(<<3, 10>>, RMul(<<1, 10>>, RInt(Len(similar_keywords))))
                IN  IF RLt(<<9, 10>>, c) THEN <<9, 10>> ELSE c
    /\ pc = "enriched" /\ LastKeyword = Row_run_shoes.keyword
          /\ (\E i \in 1..Len(semrush_keywords) : semrush_keywords[i] = Row_run_shoes) =>
          metrics = [ search_volume |-> 5000, cpc |-> <<6, 5>>,
                      keyword_difficulty |-> <<40, 1>>,
                      competition_percentage |-> <<1, 2>>,
                      confidence_score |-> <<2, 5>> ]

\* C14 witness: a keyword no adjustment applies to, estimated from two neighbors
\* with different search volumes whose mean is not an integer.
C14_Witness ==
    /\ Averaged
    /\ WordCount(LastKeyword) <= 3
    /\ ~ContainsInterrogative(LastKeyword) /\ ~ContainsBrand(LastKeyword)
    /\ Len(similar_keywords) = 2
    /\ StatedMean("search_volume")[2] # 1
    /\ metrics.confidence_score = <<1, 2>>

\* C15: the estimator applies the question adjustment (volume x0.9, cpc x0.9) to
\* a keyword if and only if the keyword starts with one of the interrogatives;
\* the cpc, which no other rule touches, shows whether it was applied.
C15_QuestionOnlyAtStart ==
    Averaged =>
        IF StartsWithInterrogative(LastKeyword)
        THEN metrics.cpc = RMul(<<9, 10>>, StatedMean("cpc"))
        ELSE metrics.cpc = StatedMean("cpc")

\* the rule that applies: the integer search_volume times num/den, else unchanged
StatedRule(applies, volume, num, den) ==
    IF applies THEN (volume * num) \div den ELSE volume

\* C16: the adjustments are composed in the order (a) long-tail (more than 3
\* words: volume x0.8, competition x0.7), (b) question (volume x0.9, cpc x0.9),
\* (c) brand token (volume x1.2, competition x1.1), each acting on the result of
\* the one before (search_volume stays an integer after each rule); a 5-word
\* question keyword with base volume 1000 ends with volume 720.  Stated for the
\* keywords whose interrogative, if any, is at the start.
C16_AdjustmentsInOrder ==
    /\ Averaged /\ (ContainsInterrogative(LastKeyword) <=> StartsWithInterrogative(LastKeyword)) =>
          LET long     == WordCount(LastKeyword) > 3
              question == StartsWithInterrogative(LastKeyword)
              brand    == ContainsBrand(LastKeyword)
              v0 == IntegerPart(StatedMean("search_volume"))
              v1 == StatedRule(long, v0, 4, 5)
              v2 == StatedRule(question, v1, 9, 10)
              v3 == StatedRule(brand, v2, 6, 5)
              c0 == StatedMean("competition")
              c1 == IF long THEN RMul(c0, <<7, 10>>) ELSE c0
              c3 == IF brand THEN RMul(c1, <<11, 10>>) ELSE c1
          IN  /\ metrics.search_volume = v3
              /\ metrics.competition_percentage = (IF RLt(<<1, 1>>, c3) THEN <<1, 1>> ELSE c3)
              /\ metrics.cpc = (IF question THEN RMul(StatedMean("cpc"), <<9, 10>>)
                                ELSE StatedMean("cpc"))
    /\ Averaged /\ WordCount(LastKeyword) = 5 /\ StartsWithInterrogative(LastKeyword)
          /\ ~ContainsBrand(LastKeyword) /\ StatedMean("search_volume") = <<1000, 1>> =>
          metrics.search_volume = 720

\* C16 witness: all three rules applied to one keyword, from a base volume the
\* order of the roundings matters for.
C16_Witness ==
    /\ Averaged
    /\ WordCount(LastKeyword) > 3
    /\ StartsWithInterrogative(LastKeyword)
    /\ ContainsBrand(LastKeyword)
    /\ Len(similar_keywords) = 2
    /\ metrics.search_volume # IntegerPart(RMul(StatedMean("search_volume"), <<108, 125>>))

\* C17: every result of the estimator, on every path (no neighbors, neighbors,
\* adjustments, internal error), has an integer search_volume >= 0, cpc >= 0,
\* keyword_difficulty in [0, 100], competition_percentage in [0, 1] and
\* confidence_score in [0, 1].
C17_MetricsInRange ==
    pc = "enriched" =>
        /\ metrics.search_volume \in Nat
        /\ RLe(<<0, 1>>, metrics.cpc)
        /\ RLe(<<0, 1>>, metrics.keyword_difficulty)
        /\ RLe(metrics.keyword_difficulty, <<100, 1>>)
        /\ RLe(<<0, 1>>, metrics.competition_percentage)
        /\ RLe(metrics.competition_percentage, <<1, 1>>)
        /\ RLe(<<0, 1>>, metrics.confidence_score)
        /\ RLe(metrics.confidence_score, <<1, 1>>)

\* C17 witness: the brand boost took the competition of a brand keyword above 1
\* and the result dict holds 1.
C17_Witness ==
    /\ Averaged
    /\ ContainsBrand(LastKeyword)
    /\ WordCount(LastKeyword) <= 3
    /\ RLt(<<1, 1>>, RMul(StatedMean("competition"), <<11, 10>>))
    /\ metrics.competition_percentage = <<1, 1>>

---------------------------------------------------------------------------
(* Lookups in the Similarity Index                                         *)

MaxIndexed == 3

\* the i-th row of the indexed corpus: two rows that differ in letter case only,
\* a lower-case row, then further rows
IndexKeyword(i) ==
    CASE i = 1 -> Row_Run_gear.keyword
      [] i = 2 -> Join(<<W_Run, W_Gear>>)
      [] i = 3 -> Row_run_shoes.keyword
      [] OTHER -> Join(<<W_best>> \o Stem(i))

IndexRow(i) ==
    CASE i = 1 -> Row_Run_gear
      [] i = 3 -> Row_run_shoes
      [] OTHER -> [ keyword |-> IndexKeyword(i), search_volume |-> 100 * i,
                    cpc |-> Rat(i, 2), keyword_difficulty |-> <<10 * i, 1>>,
                    competition |-> Rat(1, i + 1) ]

IndexCorpus(n) == [i \in 1..n |-> IndexRow(i)]

\* query strings: equal to rows 1 and 2 up to case, equal to row 3 up to case,
\* and equal to no row
IndexQueries ==
    { Join(<<W_run, W_gear>>), Join(<<W_Run, W_shoes>>), Join(<<W_nike, W_gear>>) }

\* values of the combined similarity of a query to a row it differs from: below
\* the floor, at the floor, and two values above it
IndexLevels == {<<1, 5>>, <<3, 10>>, <<1, 2>>, <<4, 5>>}

\* values of the argument top_n: the default, and one below the corpus size
TopNs == {2, default_top_n}

\* both vectorizers lower-case their input (TfidfVectorizer, lines 349-357), so the
\* combined similarity of a query to a row is 1 exactly when the two are equal up
\* to letter case
CombinedSimilarities(keyword, corpus) ==
    {sims \in [1..Len(corpus) -> IndexLevels \cup {<<1, 1>>}] :
        \A i \in 1..Len(corpus) :
            sims[i] = <<1, 1>> <=> Lower(corpus[i].keyword) = Lower(keyword)}

InitSimilar ==
    /\ pc = "new"
    /\ semrush_keywords = <<>>
    /\ keywords = <<>>
    /\ similar_keywords = <<>>
    /\ metrics = NoNeighborMetrics
    /\ additional_keywords = <<>>
    /\ final_ranked = <<>>
    /\ generated_keywords = <<>>
    /\ retrieved_keywords = <<>>
    /\ failed = {}
    /\ variants = NoValue
    /\ response = <<>>
    /\ combined_similarities = <<>>
    /\ neighbors_wanted = default_top_n
    /\ Idle

\* _initialize_keyword_similarity, called by __init__ (line 107): the table is
\* read and both vectorizers are fitted; fit_transform raises ValueError for an
\* empty list of keywords, and lines 360-362 and 111-113 raise it again
InitializeKeywordSimilarity ==
    /\ pc = "new"
    /\ \E n \in 0..MaxIndexed :
         /\ semrush_keywords' = IndexCorpus(n)
         /\ pc' = IF n = 0 THEN "raised" ELSE "ready"
    /\ UNCHANGED <<service_vars, pool_vars, combined_similarities, neighbors_wanted,
                   keywords, similar_keywords, metrics, additional_keywords,
                   final_ranked, generated_keywords, retrieved_keywords, failed,
                   variants, response>>

\* similar_keywords = self._find_similar_keywords(keyword, top_n)
FindSimilar ==
    /\ pc = "ready"
    /\ \E keyword \in IndexQueries, n \in TopNs :
         \E sims \in CombinedSimilarities(keyword, semrush_keywords) :
            \E order \in ArgSorts(sims) :
               /\ similar_keywords' =
                     FindSimilarKeywordsBy(keyword, semrush_keywords, sims, n, order)
               /\ generated_keywords' = <<keyword>>
               /\ combined_similarities' = sims
               /\ neighbors_wanted' = n
    /\ pc' = "found"
    /\ UNCHANGED <<service_vars, pool_vars, semrush_keywords, keywords, metrics,
                   additional_keywords, final_ranked, retrieved_keywords, failed,
                   variants, response>>

NextSimilar == InitializeKeywordSimilarity \/ FindSimilar

SpecSimilar == InitSimilar /\ [][NextSimilar]_vars

---------------------------------------------------------------------------
(* Properties of the Similarity Index (checked under SpecSimilar)          *)

\* the query of the lookup
Query == generated_keywords[1]

\* the corpus rows equal to the query up to letter case
CaseInsensitiveMatches ==
    {i \in 1..Len(semrush_keywords) : Lower(semrush_keywords[i].keyword) = Lower(Query)}

\* the lookup found no row under the lower-cased query
NoExactMatch ==
    /\ pc = "found"
    /\ \A i \in 1..Len(semrush_keywords) : semrush_keywords[i].keyword # Lower(Query)

\* the corpus position of a returned neighbor (the rows have distinct keywords)
RowOf(neighbor) ==
    CHOOSE i \in 1..Len(semrush_keywords) : semrush_keywords[i].keyword = neighbor.keyword

\* the rows that are not among the returned neighbors
Omitted ==
    {i \in 1..Len(semrush_keywords) :
        \A k \in 1..Len(similar_keywords) : similar_keywords[k].keyword # semrush_keywords[i].keyword}

\* C18: for every query that equals a corpus keyword up to letter case the
\* lookup returns exactly one result, that entry, with similarity 1.0.
C18_ExactMatchAnyCase ==
    pc = "found" /\ CaseInsensitiveMatches # {} =>
        /\ Len(similar_keywords) = 1
        /\ similar_keywords[1].similarity = <<1, 1>>
        /\ Lower(similar_keywords[1].keyword) = Lower(Query)

C20_TiesByInsertionOrder ==
    NoExactMatch =>
        /\ \A a, b \in 1..Len(similar_keywords) :
              a < b /\ similar_keywords[a].similarity = similar_keywords[b].similarity
                 => RowOf(similar_keywords[a]) < RowOf(similar_keywords[b])
        /\ \A i \in Omitted : \A k \in 1..Len(similar_keywords) :
              combined_similarities[i] = similar_keywords[k].similarity
                 => RowOf(similar_keywords[k]) < i

\* C21: with an empty reference corpus the generator can be built and every
\* query yields an empty neighbor list; nothing raises.
C21_EmptyCorpusQueryable ==
    pc # "new" /\ semrush_keywords = <<>> =>
        /\ pc \in {"ready", "found"}
        /\ similar_keywords = <<>>

\* C22: the reference corpus is loaded once, at construction: no step of an
\* invocation of generate_keyword_variants reloads or reassigns it.
C22_CorpusLoadedOnce == [][semrush_keywords' = semrush_keywords]_vars

\* C23: retrieval is the first stage of an invocation: when the indexes are
\* initialised and when similar content is retrieved, the candidate-generation
\* service has not been called yet, so it has produced no keyword and no failure.
C23_RetrievalBeforeGeneration ==
    pc \in {"initialize", "retrieve"} =>
        /\ generated_keywords = <<>>
        /\ "generate" \notin failed

\* C24: a call of the candidate-generation service that returns unparseable JSON
\* counts as zero candidates and the pipeline continues: the step in which the
\* call fails does not end the invocation.
C24_MalformedResponseContinues ==
    [][("generate" \in failed' /\ "generate" \notin failed) => pc' # "returned"]_vars

\* C27: an invocation with a specific_keyword uses that keyword instead of
\* generating keywords: the list that is enriched, scored and ranked is exactly
\* [specific_keyword].
C27_OnlySpecificKeyword ==
    specific_keyword # <<>> /\ pc \in {"score", "explain", "rank"} =>
        [i \in 1..Len(keywords) |-> keywords[i].keyword] = <<specific_keyword>>

(***************************************************************************)
(* Concurrent invocations of generate_keyword_variants on the generator    *)
(* that api_server.py shares between requests (lifespan, lines 36-68).     *)
(* The initialisations of lines 1418-1424 contain no await and are one     *)
(* step; the awaits of lines 1427 and 1431 lie between them and the        *)
(* enrichment, so another invocation may run in between.                   *)
(***************************************************************************)

\* concurrent requests the event loop serves
MaxInvocations == 2

\* _enrich_keywords (lines 1005-1036) for one keyword whose combined similarity
\* to every row of the corpus is level
EnrichedBy(keyword, level, corpus) ==
    EnrichKeyword(keyword, "generated", corpus, [i \in 1..Len(corpus) |-> level])

\* an invocation that has not run yet: the keyword the generation service hands
\* back to it and the similarity of that keyword to the corpus rows
NewInvocation(keyword, level) ==
    [pc |-> "start", keyword |-> keyword, level |-> level, loaded |-> <<>>,
     result |-> NoValue]

InitConcurrent ==
    /\ pc = "serving"
    /\ semrush_keywords \in PipelineCorpora
    /\ invocations \in [1..MaxInvocations ->
                          {NewInvocation(k, l) : k \in PipelinePool, l \in SimilarityLevels}]
    /\ keywords = <<>>
    /\ similar_keywords = <<>>
    /\ metrics = NoNeighborMetrics
    /\ additional_keywords = <<>>
    /\ final_ranked = <<>>
    /\ generated_keywords = <<>>
    /\ retrieved_keywords = <<>>
    /\ failed = {}
    /\ variants = NoValue
    /\ response = <<>>
    /\ combined_similarities = <<>>
    /\ neighbors_wanted = default_top_n
    /\ specific_keyword = <<>>
    /\ request = [endpoint |-> "none"]
    /\ workers = <<>>
    /\ next_worker = 0
    /\ completion = "idle"

\* lines 1418-1424 in invocation i: the table is read and self.semrush_keywords,
\* the keyword map and the vectors are assigned again
InvocationInitialize(i) ==
    /\ invocations[i].pc = "start"
    /\ \E table \in PipelineCorpora :
         /\ semrush_keywords' = table
         /\ invocations' = [invocations EXCEPT ![i].pc = "initialized",
                                               ![i].loaded = table]
    /\ UNCHANGED <<pc, specific_keyword, request, pool_vars, combined_similarities,
                   neighbors_wanted, keywords, similar_keywords, metrics,
                   additional_keywords, final_ranked, generated_keywords,
                   retrieved_keywords, failed, variants, response>>

\* lines 1435-1439 in invocation i, after the awaits of lines 1427 and 1431:
\* _find_similar_keywords reads the attributes of the shared generator
InvocationEnrich(i) ==
    /\ invocations[i].pc = "initialized"
    /\ invocations' =
         [invocations EXCEPT
            ![i].pc = "enriched",
            ![i].result = [bound |-> TRUE,
                           value |-> EnrichedBy(invocations[i].keyword,
                                                invocations[i].level,
                                                semrush_keywords)]]
    /\ UNCHANGED <<pc, specific_keyword, request, pool_vars, combined_similarities,
                   neighbors_wanted, semrush_keywords, keywords, similar_keywords,
                   metrics, additional_keywords, final_ranked, generated_keywords,
                   retrieved_keywords, failed, variants, response>>

NextConcurrent ==
    \/ \E i \in 1..MaxInvocations : InvocationInitialize(i)
    \/ \E i \in 1..MaxInvocations : InvocationEnrich(i)

SpecConcurrent == InitConcurrent /\ [][NextConcurrent]_vars

MaxIntervening == 1

\* keywords of the calls in between
OtherKeywords == {Join(<<W_run, W_gear>>), Join(<<W_how, W_to, W_run, W_nike, W_shoes>>)}

\* the combined similarity of those keywords to every row of the corpus
OtherLevel == <<1, 2>>

\* the rows come back in the opposite order
ReloadedCorpusReversed(table) == Reverse(table)

\* result.data of line 334 when the table still holds the rows of `table`
ReloadedCorpus(table) == table

\* lines 1014-1018: the neighbors and the metrics of one keyword
Estimate(keyword, corpus, sims) == EnrichKeyword(keyword, "generated", corpus, sims)

InitRepeat ==
    /\ pc = "ready"
    /\ semrush_keywords \in Corpora
    /\ generated_keywords \in {<<k>> : k \in EnrichPool}
    /\ combined_similarities \in [1..Len(semrush_keywords) -> SimilarityLevels]
    /\ keywords = <<>>
    /\ similar_keywords = <<>>
    /\ metrics = NoNeighborMetrics
    /\ additional_keywords = <<>>
    /\ final_ranked = <<>>
    /\ retrieved_keywords = <<>>
    /\ failed = {}
    /\ variants = NoValue
    /\ response = <<>>
    /\ neighbors_wanted = default_top_n
    /\ Idle

\* the first run: _find_similar_keywords(keyword), then _estimate_metrics
EstimateFirst ==
    /\ pc = "ready"
    /\ LET v == Estimate(generated_keywords[1], semrush_keywords, combined_similarities)
       IN  /\ keywords' = <<v>>
           /\ similar_keywords' = v.similar_keywords
           /\ metrics' = EstimateMetrics(generated_keywords[1], v.similar_keywords)
    /\ pc' = "first"
    /\ UNCHANGED <<service_vars, pool_vars, combined_similarities, neighbors_wanted,
                   semrush_keywords, additional_keywords, final_ranked,
                   generated_keywords, retrieved_keywords, failed, variants, response>>

\* another keyword is estimated between the two runs (lines 1014-1018)
OtherEstimate ==
    /\ pc = "first"
    /\ Len(invocations) < MaxIntervening
    /\ \E other \in OtherKeywords :
         LET v == EnrichedBy(other, OtherLevel, semrush_keywords)
         IN  /\ similar_keywords' = v.similar_keywords
             /\ metrics' = EstimateMetrics(other, v.similar_keywords)
             /\ invocations' = Append(invocations, [keyword |-> other, reloaded |-> FALSE])
    /\ UNCHANGED <<pc, specific_keyword, request, pool_vars, combined_similarities,
                   neighbors_wanted, semrush_keywords, keywords, additional_keywords,
                   final_ranked, generated_keywords, retrieved_keywords, failed,
                   variants, response>>

\* a pipeline invocation between the two runs: the table is read again
\* (lines 1418-1424) and another keyword is enriched (line 1437)
OtherInvocation ==
    /\ pc = "first"
    /\ Len(invocations) < MaxIntervening
    /\ semrush_keywords' = ReloadedCorpus(semrush_keywords)
    /\ \E other \in OtherKeywords :
         LET v == EnrichedBy(other, OtherLevel, semrush_keywords')
         IN  /\ similar_keywords' = v.similar_keywords
             /\ metrics' = EstimateMetrics(other, v.similar_keywords)
             /\ invocations' = Append(invocations, [keyword |-> other, reloaded |-> TRUE])
    /\ UNCHANGED <<pc, specific_keyword, request, pool_vars, combined_similarities,
                   neighbors_wanted, keywords, additional_keywords, final_ranked,
                   generated_keywords, retrieved_keywords, failed, variants, response>>

\* the second run on the same keyword
EstimateSecond ==
    /\ pc = "first"
    /\ LET v == Estimate(generated_keywords[1], semrush_keywords, combined_similarities)
       IN  /\ keywords' = Append(keywords, v)
           /\ similar_keywords' = v.similar_keywords
           /\ metrics' = EstimateMetrics(generated_keywords[1], v.similar_keywords)
    /\ pc' = "second"
    /\ UNCHANGED <<service_vars, pool_vars, combined_similarities, neighbors_wanted,
                   semrush_keywords, additional_keywords, final_ranked,
                   generated_keywords, retrieved_keywords, failed, variants, response>>

NextRepeat == EstimateFirst \/ OtherEstimate \/ OtherInvocation \/ EstimateSecond

SpecRepeat == InitRepeat /\ [][NextRepeat]_vars

MarkRetrieved(batch, segs) ==
    LET marked == [i \in 1..Len(batch) |->
                     [batch[i] EXCEPT !.source =
                        IF SegmentTable[batch[i].keyword] \in segs
                        THEN "retrieved" ELSE "generated"]]
    IN  SelectSeq(marked, LAMBDA kw : kw.source = "generated")
            \o SelectSeq(marked, LAMBDA kw : kw.source = "retrieved")

\* the keyword strings of the candidates of one source
KeywordsOfSource(batch, source) ==
    LET of == SelectSeq(batch, LAMBDA kw : kw.source = source)
    IN  [i \in 1..Len(of) |-> of[i].keyword]

InitEndpoint ==
    /\ pc = "rank"
    /\ \E b \in SeedBatches, segs \in SUBSET {Segments[i] : i \in 1..Len(Segments)} :
         /\ keywords = MarkRetrieved(b, segs)
         /\ generated_keywords = KeywordsOfSource(keywords, "generated")
         /\ retrieved_keywords = KeywordsOfSource(keywords, "retrieved")
    /\ semrush_keywords \in PipelineCorpora
    /\ similar_keywords = <<>>
    /\ metrics = NoNeighborMetrics
    /\ additional_keywords = <<>>
    /\ final_ranked = <<>>
    /\ failed = {}
    /\ variants = NoValue
    /\ response = <<>>
    /\ combined_similarities = <<>>
    /\ neighbors_wanted = default_top_n
    /\ Idle

NextEndpoint == RankAndReturn \/ Respond \/ Timeout

SpecEndpoint == InitEndpoint /\ [][NextEndpoint]_vars

\* C28: /keywords/generate returns exactly min(12, G) variants, all of source
\* "generated", where G is the number of generated candidates of the run,
\* whatever number of retrieved candidates was scored alongside them.
C28_ExactlyMinGenerated ==
    pc = "done" =>
        /\ Len(response) = Min(endpoint_limit, Len(generated_keywords))
        /\ \A i \in 1..Len(response) : response[i].source = "generated"

(***************************************************************************)
(* The endpoints of api_server.py that raise HTTPException inside a body   *)
(* guarded by `except Exception`: /keywords/export, GET /keywords and      *)
(* /keywords/batch-generate.                                               *)
(***************************************************************************)

\* keywords in the body of a batch request
MaxBatchKeywords == 2

\* raise HTTPException(status_code=status); HTTPException is an Exception
HTTPException(status) == [raised |-> TRUE, status |-> status]

\* an exception that is no HTTPException
OtherException == [raised |-> TRUE, status |-> 0]

\* the body returns
Returns == [raised |-> FALSE, status |-> 200]

\* lines 298-300, 325-327 and 440-442:
\*   except Exception as e: raise HTTPException(status_code=500, detail=str(e))
ExceptException(outcome) ==
    IF outcome.raised THEN HTTPException(500) ELSE outcome

\* the try body of export_keyword_variants_endpoint (lines 224-296); a missing
\* user_id is replaced by the test user
ExportBody(req) ==
    IF ~req.initialized THEN HTTPException(500)
    ELSE IF req.outcome = "timeout" THEN HTTPException(408)
    ELSE IF req.outcome = "error" THEN OtherException
    ELSE Returns

\* the try body of get_all_keywords_endpoint (lines 312-324)
GetAllKeywordsBody(req) ==
    IF ~req.initialized THEN HTTPException(500)
    ELSE IF ~req.user_id THEN HTTPException(400)
    ELSE IF req.outcome = "error" THEN OtherException
    ELSE Returns

\* the try body of batch_generate_variants_endpoint (lines 353-439); a failure
\* for one keyword is caught inside the loop (lines 424-434)
BatchGenerateBody(req) ==
    IF ~req.initialized THEN HTTPException(500)
    ELSE IF req.keywords = 0 \/ ~req.user_id THEN HTTPException(400)
    ELSE Returns

\* a request as the server receives it
Request(endpoint, initialized, user_id, n, outcome) ==
    [endpoint |-> endpoint, initialized |-> initialized, user_id |-> user_id,
     keywords |-> n, outcome |-> outcome, status |-> 0]

Outcomes == {"ok", "timeout", "error"}

InitHttp ==
    /\ pc = "received"
    /\ request \in
         {Request("export", g, u, 0, o) : g \in BOOLEAN, u \in BOOLEAN, o \in Outcomes}
         \cup {Request("keywords", g, u, 0, o) :
                  g \in BOOLEAN, u \in BOOLEAN, o \in Outcomes \ {"timeout"}}
         \cup UNION {{Request("batch", g, u, n, o) : g \in BOOLEAN, u \in BOOLEAN,
                                                     o \in Outcomes \ {"timeout"}} :
                        n \in 0..MaxBatchKeywords}
    /\ semrush_keywords \in PipelineCorpora
    /\ keywords = <<>>
    /\ similar_keywords = <<>>
    /\ metrics = NoNeighborMetrics
    /\ additional_keywords = <<>>
    /\ final_ranked = <<>>
    /\ generated_keywords = <<>>
    /\ retrieved_keywords = <<>>
    /\ failed = {}
    /\ variants = NoValue
    /\ response = <<>>
    /\ combined_similarities = <<>>
    /\ neighbors_wanted = default_top_n
    /\ specific_keyword = <<>>
    /\ invocations = <<>>
    /\ workers = <<>>
    /\ next_worker = 0
    /\ completion = "idle"

\* the status the client receives from the endpoint whose try body is body
Handle(endpoint, body) ==
    /\ pc = "received"
    /\ request.endpoint = endpoint
    /\ request' = [request EXCEPT !.status = ExceptException(body).status]
    /\ pc' = "responded"
    /\ UNCHANGED <<specific_keyword, invocations, pool_vars, combined_similarities,
                   neighbors_wanted, semrush_keywords, keywords, similar_keywords,
                   metrics, additional_keywords, final_ranked, generated_keywords,
                   retrieved_keywords, failed, variants, response>>

ExportKeywordVariantsEndpoint == Handle("export", ExportBody(request))

GetAllKeywordsEndpoint == Handle("keywords", GetAllKeywordsBody(request))

BatchGenerateVariantsEndpoint == Handle("batch", BatchGenerateBody(request))

NextHttp ==
    \/ ExportKeywordVariantsEndpoint
    \/ GetAllKeywordsEndpoint
    \/ BatchGenerateVariantsEndpoint

SpecHttp == InitHttp /\ [][NextHttp]_vars

\* C29: an HTTP error raised with an explicit status inside an endpoint body
\* reaches the client with that status: 408 for a generation timeout in
\* /keywords/export, 400 for a missing user_id in GET /keywords and for missing
\* keywords or user_id in /keywords/batch-generate.
C29_ExplicitStatusReachesClient ==
    pc = "responded" /\ request.initialized =>
        /\ request.endpoint = "export" /\ request.outcome = "timeout"
              => request.status = 408
        /\ request.endpoint = "keywords" /\ ~request.user_id
              => request.status = 400
        /\ request.endpoint = "batch" /\ (request.keywords = 0 \/ ~request.user_id)
              => request.status = 400

(***************************************************************************)
(* WorkerPool (keywords/worker_pool.py) and the queue loop of its          *)
(* BrowserWorkers (keywords/browser_worker.py).  A worker is a record of   *)
(* its asyncio.Queue (the items and the count of unfinished tasks), the    *)
(* URLs in the lru_cache of extract_content, and the number of items it    *)
(* has taken from the queue.                                               *)
(***************************************************************************)

\* num_workers of the pool
NumWorkers == 2

\* calls of add_work
MaxWork == 3

Urls == {"url_a", "url_b"}

\* what the callback of a work item does when it is called
Callbacks == {"returns", "raises"}

\* WorkItem(url=url, callback=callback, context=context)
WorkItem(url, callback) == [url |-> url, callback |-> callback]

\* BrowserWorker.__init__
BrowserWorker == [queue |-> <<>>, unfinished |-> 0, cache |-> {}, taken |-> 0]

\* the number of add_work calls so far
WorkAdded ==
    LET RECURSIVE Sum(_)
        Sum(i) == IF i = 0 THEN 0
                  ELSE Len(workers[i].queue) + workers[i].taken + Sum(i - 1)
    IN  Sum(Len(workers))

InitPool ==
    /\ pc = "created"
    /\ workers = <<>>
    /\ next_worker = 0
    /\ completion = "idle"
    /\ semrush_keywords = <<>>
    /\ keywords = <<>>
    /\ similar_keywords = <<>>
    /\ metrics = NoNeighborMetrics
    /\ additional_keywords = <<>>
    /\ final_ranked = <<>>
    /\ generated_keywords = <<>>
    /\ retrieved_keywords = <<>>
    /\ failed = {}
    /\ variants = NoValue
    /\ response = <<>>
    /\ combined_similarities = <<>>
    /\ neighbors_wanted = default_top_n
    /\ specific_keyword = <<>>
    /\ request = [endpoint |-> "none"]
    /\ invocations = <<>>

pipeline_vars ==
    <<service_vars, combined_similarities, neighbors_wanted, semrush_keywords,
      keywords, similar_keywords, metrics, additional_keywords, final_ranked,
      generated_keywords, retrieved_keywords, failed, variants, response>>

\* WorkerPool.initialize: the workers are created and their process_queue tasks
\* are started
Initialize ==
    /\ pc = "created"
    /\ workers' = [i \in 1..NumWorkers |-> BrowserWorker]
    /\ pc' = "initialized"
    /\ UNCHANGED <<next_worker, completion, pipeline_vars>>

\* WorkerPool.add_work: round robin; put_nowait counts one more unfinished task
AddWork ==
    /\ pc = "initialized"
    /\ completion = "idle"
    /\ WorkAdded < MaxWork
    /\ \E url \in Urls, callback \in Callbacks :
         LET w == next_worker + 1
         IN  workers' = [workers EXCEPT
                           ![w].queue = Append(@, WorkItem(url, callback)),
                           ![w].unfinished = @ + 1]
    /\ next_worker' = (next_worker + 1) % NumWorkers
    /\ UNCHANGED <<pc, completion, pipeline_vars>>

\* one iteration of BrowserWorker.process_queue (lines 68-86) in worker w.
\* extract_content is an async method under lru_cache: the cache holds the
\* coroutine of the first call for a URL, and awaiting it a second time raises
\* RuntimeError.  task_done (line 84) is reached when no exception is raised.
ProcessItem(w) ==
    /\ pc = "initialized"
    /\ Len(workers[w].queue) > 0
    /\ LET work_item == Head(workers[w].queue)
           taken     == [workers EXCEPT ![w].queue = Tail(@), ![w].taken = @ + 1]
       IN  IF work_item.url \in workers[w].cache
           THEN workers' = taken
           ELSE \E content \in BOOLEAN :
                  LET cached == [taken EXCEPT ![w].cache = @ \cup {work_item.url}]
                  IN  IF content /\ work_item.callback = "raises"
                      THEN workers' = cached
                      ELSE workers' = [cached EXCEPT ![w].unfinished = @ - 1]
    /\ UNCHANGED <<pc, next_worker, completion, pipeline_vars>>

\* WorkerPool.wait_completion is called
WaitCompletion ==
    /\ pc = "initialized"
    /\ completion = "idle"
    /\ completion' = "waiting"
    /\ UNCHANGED <<pc, workers, next_worker, pipeline_vars>>

\* every queue.join() has returned, and with them the gather of line 49
ReturnCompletion ==
    /\ completion = "waiting"
    /\ \A w \in 1..Len(workers) : workers[w].unfinished = 0
    /\ completion' = "returned"
    /\ UNCHANGED <<pc, workers, next_worker, pipeline_vars>>

NextPool ==
    \/ Initialize
    \/ AddWork
    \/ \E w \in 1..NumWorkers : ProcessItem(w)
    \/ WaitCompletion
    \/ ReturnCompletion

\* the event loop runs every task that is ready: each worker's process_queue
\* task and the task that awaits wait_completion
SpecPoolFair ==
    /\ InitPool
    /\ [][NextPool]_vars
    /\ \A w \in 1..NumWorkers : WF_vars(ProcessItem(w))
    /\ WF_vars(ReturnCompletion)

\* C30: on an initialized pool, after any finite sequence of add_work calls,
\* wait_completion eventually returns, also when a callback raises, when the
\* extraction yields no content and when a URL is queued twice to one worker.
C30_WaitCompletionReturns ==
    (completion = "waiting") ~> (completion = "returned")

=============================================================================
